---------------------------- MODULE Spec2Model ----------------------------
(***************************************************************************)
(* A model of monome-rs (src/src/lib.rs): the OSC handshake that sets up   *)
(* one device (Monome::setup, MonomeInfo), the session object (Monome)     *)
(* with its bounded outbound channel and inbound queue, and the background *)
(* reactor (the Future implemented by Transport).                          *)
(*                                                                         *)
(* Strings are sequences of one-character strings, so that the code's      *)
(* starts_with tests are prefix tests here too.                            *)
(***************************************************************************)
EXTENDS Integers, Sequences, FiniteSets, TLC

-----------------------------------------------------------------------------
(* Strings of the program *)

SysNs == <<"/","s","y","s">>
SerialoscNs == <<"/","s","e","r","i","a","l","o","s","c">>
SysPort == <<"/","s","y","s","/","p","o","r","t">>
SysHost == <<"/","s","y","s","/","h","o","s","t">>
SysId == <<"/","s","y","s","/","i","d">>
SysPrefix == <<"/","s","y","s","/","p","r","e","f","i","x">>
SysRotation == <<"/","s","y","s","/","r","o","t","a","t","i","o","n">>
SysSize == <<"/","s","y","s","/","s","i","z","e">>
SysInfo == <<"/","s","y","s","/","i","n","f","o">>
SysConnect == <<"/","s","y","s","/","c","o","n","n","e","c","t">>
SysPorts == SysPort \o <<"s">>
TiltSet == <<"/","t","i","l","t","/","s","e","t">>
Plop == <<"/","p","l","o","p">>
Mono == <<"/","m","o","n","o">>
Localhost == <<"1","2","7",".","0",".","0",".","1">>
IdA == <<"m","1">>
IdB == <<"m","2">>
NameGrid == <<"g","r","i","d">>
NameArc == <<"a","r","c">>

\* str.starts_with(p)
StartsWith(a, p) == Len(p) <= Len(a) /\ SubSeq(a, 1, Len(p)) = p

\* str.contains(p)
Contains(a, p) ==
    \E i \in 1..(Len(a) + 1) :
        i + Len(p) - 1 <= Len(a) /\ SubSeq(a, i, i + Len(p) - 1) = p

-----------------------------------------------------------------------------
(* OSC values: rosc's OscType, OscMessage, OscPacket, and its codec *)

\* OscType::Int(i) and OscType::String(s); the unused field keeps the two
\* variants comparable.
OscInt(i) == [t |-> "Int", i |-> i, s |-> <<>>]
OscString(s) == [t |-> "String", i |-> 0, s |-> s]

\* OscPacket::Message(OscMessage { addr, args: Some(args) })
Message(addr, args) ==
    [kind |-> "Message", addr |-> addr, hasArgs |-> TRUE, args |-> args]
\* OscPacket::Message(OscMessage { addr, args: None })
MessageNoArgs(addr) ==
    [kind |-> "Message", addr |-> addr, hasArgs |-> FALSE, args |-> <<>>]
\* OscPacket::Bundle(_)
Bundle == [kind |-> "Bundle", addr |-> <<>>, hasArgs |-> FALSE, args |-> <<>>]

\* build_osc_message(addr, args)
build_osc_message(addr, args) == Message(addr, args)

\* rosc::encoder::encode: the datagram holds the address and the type-tagged
\* arguments; an absent argument list and an empty one encode alike.
encode(packet) ==
    [ok |-> TRUE, kind |-> packet.kind, addr |-> packet.addr,
     args |-> IF packet.hasArgs THEN packet.args ELSE <<>>]

\* Bytes that rosc cannot decode.
Garbage == [ok |-> FALSE, kind |-> "Garbage", addr |-> <<>>, args |-> <<>>]

\* rosc::decoder::decode: Err for undecodable bytes; a message without
\* arguments decodes to args: None (tests::setup asserts it for /sys/info).
decode(dgram) ==
    IF ~dgram.ok THEN [err |-> TRUE, packet |-> Bundle]
    ELSE [err |-> FALSE,
          packet |-> [kind |-> dgram.kind, addr |-> dgram.addr,
                      hasArgs |-> dgram.args # <<>>, args |-> dgram.args]]

-----------------------------------------------------------------------------
(* Program constants *)

SERIALOSC_PORT == 12002
START_PORT == 10000
DEVICE_ENUMERATION_TIMEOUT_MS == 500
PortCeiling == 65535
OutboundBuffer == 16
InboundCapacity == 32


-----------------------------------------------------------------------------
(* Bounds of the model *)

\* How many handshake field messages the device may send a second time.
MaxDuplicates == 1
\* How many commands the caller issues on one session.
MaxSends == 19
\* How many datagrams the device sends to one session.
MaxDatagrams == 34
\* How many times the socket reports "not ready" to a send.
MaxSendNotReady == 1
\* How many datagrams serialosc sends to an enumeration.
MaxAnnounce == 3
\* How far the clock of an enumeration runs, in milliseconds.
MaxTime == 1000
\* How many datagrams the device-change watcher receives.
MaxWatched == 3
\* How many frames wait in the inbound queue of a session that is polled.
QueuedFrames == 3
\* Up to how many frames grid, ring and /sys commands may have sent when the
\* caller issues another one.
MaxCommands == 2

-----------------------------------------------------------------------------
VARIABLES
    pc,           \* where the caller is: from_device .. session, dropped, panicked
    device,       \* the MonomeDevice given to from_device
    prefixArg,    \* the prefix given to from_device
    busyPorts,    \* the local ports that are already bound, as a set of
                  \* ranges <<first, last>> (environment)
    localPort,    \* the port new_bound_socket bound (0: none yet)
    info,         \* setup's MonomeInfo
    monome,       \* the Monome, <<>> while there is none
    wire,         \* the datagrams handed to the socket for sending, in order
    outQ,         \* the futures mpsc channel Monome.tx -> Transport.rx
    senderParked, \* the channel's Sender is parked (it used its own slot)
    inQ,          \* the ArrayQueue Transport.tx -> Monome.q
    sockIn,       \* datagrams the socket holds for Transport to receive
    rpc,          \* where the reactor is: none, drain, recv, parked, failed
    hsStarted,    \* history: setup has received a datagram
    hsArrivals,   \* history: per field, how many messages for it arrived
    hsCarried,    \* history: per field, the value its first message carried
    hsLast,       \* history: the field whose message arrived latest
    hsBundle,     \* history: the receive loop of setup received a bundle
    nCmd,         \* history: commands issued on the session
    accepted,     \* history: sequence numbers of the frames try_send accepted
    lastCmd,      \* history: how the latest command call ended
    refusals,     \* history: the errors try_send has returned so far
    nArrived,     \* history: datagrams the device sent to the session
    nReceived,    \* history: datagrams poll_recv handed to the reactor
    delivered,    \* history: the datagrams poll popped, in order
    overflowed,   \* history: the datagrams dropped because inQ was full
    lastEvent,    \* history: what the latest poll call returned
    notReadySends,\* history: sends the socket answered "not ready"
    lostOut,      \* history: frames taken from outQ and never sent
    sawClosed,    \* history: rx.poll() returned Ready(None)
    sockErr,      \* history: a socket operation of the reactor returned Err
    lastBuf,      \* history: the frame the latest poll call popped, as an Option
    traffic,      \* the datagrams the device sends to the session (environment)
    leds,         \* the caller's buffer of led states, one boolean per led
    lastCall,     \* history: the latest command call and the packets it sent
    epc,          \* where enumerate_devices_with_port is: none, list, listening, ..
    now,          \* the clock, in milliseconds
    deadline,     \* the instant at which the Delay of the current turn fires
    devices,      \* enumerate's Vec<MonomeDevice>
    eSock,        \* datagrams enumerate's socket holds, each with its arrival time
    eLog,         \* history: the datagrams serialosc sent, with their times
    eRecv,        \* history: the datagrams enumerate received, with their times
    wpc,          \* where the device-change watcher is: none, loop, recv, panicked
    need_notify_msg, \* the watcher's flag of the same name
    wLog,         \* history: what the watcher sent, received and called back
    bpc,          \* where new_bound_socket is: none, scan, bound, panicked
    bport,        \* new_bound_socket's `port`
    bTried        \* history: the port of the latest bind attempt (0: none yet)

setupVars == <<device, prefixArg, busyPorts, localPort, info,
               hsStarted, hsArrivals, hsCarried, hsLast, hsBundle>>
outVars == <<outQ, senderParked, nCmd, accepted, lastCmd, refusals,
             notReadySends, lostOut, sawClosed>>
inVars == <<inQ, sockIn, nArrived, nReceived, delivered, overflowed, lastEvent,
           lastBuf>>
enumVars == <<epc, now, deadline, devices, eSock, eLog, eRecv>>
callVars == <<leds, lastCall>>
watchVars == <<wpc, need_notify_msg, wLog>>
bindVars == <<bpc, bport, bTried>>
vars == <<pc, monome, wire, rpc, sockErr, setupVars, outVars, inVars, traffic,
          callVars, enumVars, watchVars, bindVars>>

-----------------------------------------------------------------------------
(* MonomeInfo *)

Fields == {"port", "host", "prefix", "id", "size", "rotation"}

\* Option<T>: None is <<>>, Some(v) is <<v>>.
None == <<>>
Some(v) == <<v>>
IsSome(o) == o # <<>>
Unwrap(o) == o[1]

\* MonomeInfo::new
MonomeInfo_new ==
    [port |-> None, host |-> None, prefix |-> None,
     id |-> None, size |-> None, rotation |-> None]

\* Mutant of complete: the port is not asked for.
complete_without_port(self) ==
    /\ IsSome(self.host)
    /\ IsSome(self.prefix)
    /\ IsSome(self.id)
    /\ IsSome(self.size)
    /\ IsSome(self.rotation)

\* MonomeInfo::complete
complete(self) ==
    /\ IsSome(self.port)
    /\ IsSome(self.host)
    /\ IsSome(self.prefix)
    /\ IsSome(self.id)
    /\ IsSome(self.size)
    /\ IsSome(self.rotation)

\* The result of an operation that may panic.
Ok(v) == [panic |-> FALSE, val |-> v]
Panic(v) == [panic |-> TRUE, val |-> v]

\* Mutant of fill_size: width and height are stored the other way round.
fill_size_swapped(self, args) ==
    IF args[1].t # "Int" THEN Ok(self)
    ELSE IF Len(args) < 2 THEN Panic(self)
    ELSE IF args[2].t = "Int"
        THEN Ok([self EXCEPT !.size = Some(<<args[2].i, args[1].i>>)])
    ELSE Ok(self)

\* MonomeInfo::fill, the /sys/size branch.
fill_size(self, args) ==
    IF args[1].t # "Int" THEN Ok(self)
    ELSE IF Len(args) < 2 THEN Panic(self)
    ELSE IF args[2].t = "Int"
        THEN Ok([self EXCEPT !.size = Some(<<args[1].i, args[2].i>>)])
    ELSE Ok(self)

\* MonomeInfo::fill. args[0] and args[1] are indexed without a length
\* check, so a list that is too short panics.
fill(self, packet) ==
    IF packet.kind = "Bundle" THEN Ok(self)
    ELSE IF ~StartsWith(packet.addr, SysNs) THEN Ok(self)
    ELSE IF ~packet.hasArgs THEN Ok(self)
    ELSE LET args == packet.args
             a == packet.addr
             matched == \/ StartsWith(a, SysPort) \/ StartsWith(a, SysHost)
                        \/ StartsWith(a, SysId) \/ StartsWith(a, SysPrefix)
                        \/ StartsWith(a, SysRotation) \/ StartsWith(a, SysSize)
         IN  IF ~matched THEN Ok(self)
             ELSE IF Len(args) < 1 THEN Panic(self)
             ELSE IF StartsWith(a, SysPort) THEN
                 IF args[1].t = "Int"
                 THEN Ok([self EXCEPT !.port = Some(args[1].i)]) ELSE Ok(self)
             ELSE IF StartsWith(a, SysHost) THEN
                 IF args[1].t = "String"
                 THEN Ok([self EXCEPT !.host = Some(args[1].s)]) ELSE Ok(self)
             ELSE IF StartsWith(a, SysId) THEN
                 IF args[1].t = "String"
                 THEN Ok([self EXCEPT !.id = Some(args[1].s)]) ELSE Ok(self)
             ELSE IF StartsWith(a, SysPrefix) THEN
                 IF args[1].t = "String"
                 THEN Ok([self EXCEPT !.prefix = Some(args[1].s)]) ELSE Ok(self)
             ELSE IF StartsWith(a, SysRotation) THEN
                 IF args[1].t = "Int"
                 THEN Ok([self EXCEPT !.rotation = Some(args[1].i)]) ELSE Ok(self)
             ELSE fill_size(self, args)

-----------------------------------------------------------------------------
(* new_bound_socket *)

\* The port the socket is bound to: the first port from `port` upward whose
\* bind succeeds; 0 when the scan runs past the last port, where the code
\* panics.
\* UdpSocket::bind fails on a port that is taken.
Taken(port, busy) == \E r \in busy : r[1] <= port /\ port <= r[2]

RECURSIVE new_bound_socket_from(_, _)
new_bound_socket_from(port, busy) ==
    IF port > PortCeiling THEN 0
    ELSE IF ~Taken(port, busy) THEN port
    ELSE new_bound_socket_from(port + 1, busy)

new_bound_socket(busy) == new_bound_socket_from(START_PORT, busy)

-----------------------------------------------------------------------------
(* MonomeEvent and Monome::parse *)

\* `n as usize` for an i32 n on a 64-bit target: k * 2^64 + r.
AsUsize(n) == [k |-> IF n < 0 THEN 1 ELSE 0, r |-> n]

\* Option<MonomeEvent>
NoEvent == [type |-> "None"]
GridKey(x, y, direction) ==
    [type |-> "GridKey", x |-> x, y |-> y, direction |-> direction]
Tilt(n, x, y, z) == [type |-> "Tilt", n |-> n, x |-> x, y |-> y, z |-> z]
EncoderDelta(n, delta) == [type |-> "EncoderDelta", n |-> n, delta |-> delta]
EncoderKey(n, direction) ==
    [type |-> "EncoderKey", n |-> n, direction |-> direction]
\* No poll call has returned yet.
NotPolled == [type |-> "NotPolled"]

\* if let [OscType::Int(..), ..] = args.as_slice(), for k integers
AllInts(args, k) == Len(args) = k /\ \A j \in 1..k : args[j].t = "Int"

KeyDirectionOf(v) == IF v = 1 THEN "Down" ELSE "Up"

GridKeySuffix == <<"/","g","r","i","d","/","k","e","y">>
TiltSuffix == <<"/","t","i","l","t">>
EncDeltaSuffix == <<"/","e","n","c","/","d","e","l","t","a">>
EncKeySuffix == <<"/","e","n","c","/","k","e","y">>
SerialoscAdd == SerialoscNs \o <<"/","a","d","d">>
SerialoscRemove == SerialoscNs \o <<"/","r","e","m","o","v","e">>
SerialoscNotify == SerialoscNs \o <<"/","n","o","t","i","f","y">>
SerialoscDevice == SerialoscNs \o <<"/","d","e","v","i","c","e">>

\* Monome::parse, the branch for an address that starts with the prefix.
parse_prefixed(prefix, m) ==
    LET args == m.args
    IN  IF ~m.hasArgs THEN Ok(NoEvent)
        ELSE IF StartsWith(m.addr, prefix \o GridKeySuffix) THEN
            IF AllInts(args, 3)
            THEN Ok(GridKey(args[1].i, args[2].i, KeyDirectionOf(args[3].i)))
            ELSE Ok(NoEvent)
        ELSE IF StartsWith(m.addr, prefix \o TiltSuffix) THEN
            IF AllInts(args, 4)
            THEN Ok(Tilt(args[1].i, args[2].i, args[3].i, args[4].i))
            ELSE Ok(NoEvent)
        ELSE IF StartsWith(m.addr, prefix \o EncDeltaSuffix) THEN
            IF AllInts(args, 2)
            THEN Ok(EncoderDelta(AsUsize(args[1].i), args[2].i))
            ELSE Ok(NoEvent)
        ELSE IF StartsWith(m.addr, prefix \o EncKeySuffix) THEN
            IF AllInts(args, 2)
            THEN Ok(EncoderKey(AsUsize(args[1].i), KeyDirectionOf(args[2].i)))
            ELSE Ok(NoEvent)
        ELSE Ok(NoEvent)

\* Mutant of parse: the prefix is tested before the two reserved namespaces.
parse_prefix_first(prefix, buf) ==
    LET d == decode(buf)
        m == d.packet
    IN  IF d.err THEN Panic(NoEvent)
        ELSE IF m.kind = "Bundle" THEN Panic(NoEvent)
        ELSE IF StartsWith(m.addr, prefix) THEN parse_prefixed(prefix, m)
        ELSE Ok(NoEvent)

\* Mutant of parse: a bundle is skipped like an unknown message.
parse_bundle_none(prefix, buf) ==
    LET d == decode(buf)
        m == d.packet
    IN  IF d.err THEN Panic(NoEvent)
        ELSE IF m.kind = "Bundle" THEN Ok(NoEvent)
        ELSE IF StartsWith(m.addr, SerialoscNs) THEN Ok(NoEvent)
        ELSE IF StartsWith(m.addr, SysNs) THEN Ok(NoEvent)
        ELSE IF ~StartsWith(m.addr, prefix) THEN Ok(NoEvent)
        ELSE parse_prefixed(prefix, m)

\* Monome::parse(&self, buf), with self.prefix = prefix.
parse(prefix, buf) ==
    LET d == decode(buf)
        m == d.packet
        args == m.args
    IN  IF d.err THEN Panic(NoEvent)
        ELSE IF m.kind = "Bundle" THEN Panic(NoEvent)
        ELSE IF StartsWith(m.addr, SerialoscNs) THEN
            IF m.addr = SerialoscDevice THEN Ok(NoEvent)
            ELSE IF m.addr = SerialoscAdd /\ m.hasArgs /\ Len(args) < 1
                THEN Panic(NoEvent)
            ELSE Ok(NoEvent)
        ELSE IF StartsWith(m.addr, SysNs) THEN Ok(NoEvent)
        ELSE IF ~StartsWith(m.addr, prefix) THEN Ok(NoEvent)
        ELSE parse_prefixed(prefix, m)

\* What a datagram on the inbound queue may hold. Transport never looks into
\* the bytes, so the model fixes them where they are first read, in poll.
PollDatagrams ==
    { encode(Message(Plop \o GridKeySuffix, <<OscInt(1), OscInt(2), OscInt(1)>>)),
      encode(Message(TiltSet, <<OscInt(0), OscInt(1)>>)),
      encode(Bundle),
      Garbage }

\* History only: a command call, with its integer arguments, its boolean
\* argument, the type of its last argument, and the packets it handed to
\* try_send, in order.
Call(op, ints, on, variant, frames) ==
    [op |-> op, ints |-> ints, on |-> on, variant |-> variant,
     frames |-> frames]
NoCall == Call("none", <<>>, FALSE, "none", <<>>)

\* No device-change watcher was registered.
WatchIdle ==
    /\ wpc = "none"
    /\ need_notify_msg = FALSE
    /\ wLog = <<>>

\* new_bound_socket is not running.
BindIdle ==
    /\ bpc = "none"
    /\ bport = 0
    /\ bTried = 0

\* No enumeration is going on: from_device was called on a MonomeDevice the
\* caller already had.
EnumIdle ==
    /\ epc = "none"
    /\ now = 0
    /\ deadline = 0
    /\ devices = <<>>
    /\ eSock = <<>>
    /\ eLog = <<>>
    /\ eRecv = <<>>

-----------------------------------------------------------------------------
(* MonomeDevice *)

\* impl From<&str> for MonomeDeviceType
MonomeDeviceType_from(string) ==
    IF Contains(string, NameArc) THEN "Arc" ELSE "Grid"

\* MonomeDevice::new
MonomeDevice_new(name, device_type, port) ==
    [name |-> name, device_type |-> MonomeDeviceType_from(device_type),
     port |-> port]

\* The devices serialosc may have announced.
Devices ==
    {MonomeDevice_new(IdA, NameGrid, 1234), MonomeDevice_new(IdB, NameArc, 1235)}

-----------------------------------------------------------------------------
(* Monome::setup and Monome::from_device *)

\* A datagram handed to the socket: where to, and the frame's sequence
\* number among the commands (0 for setup's own messages).
Sent(to, dgram, seq) == [to |-> to, dgram |-> dgram, seq |-> seq]

\* The four messages setup sends, in the order of the code.
SetupPortMsg(p) == build_osc_message(SysPort, <<OscInt(p)>>)
SetupHostMsg == build_osc_message(SysHost, <<OscString(Localhost)>>)
SetupPrefixMsg(prefix) == build_osc_message(SysPrefix, <<OscString(prefix)>>)
SetupInfoMsg == build_osc_message(SysInfo, <<>>)

\* What the device may send while setup waits: the six fields (rotation and
\* size with two values each), fields with an argument of the wrong type, a
\* size with one argument, messages setup does not know, one of them at an
\* address that goes on after /sys/port, a bundle, and bytes that do not
\* decode.
HandshakeDatagrams(dev) ==
    { encode(m) : m \in
        { Message(SysPort, <<OscInt(dev.port)>>),
          Message(SysHost, <<OscString(Localhost)>>),
          Message(SysId, <<OscString(dev.name)>>),
          Message(SysPrefix, <<OscString(Plop)>>),
          Message(SysRotation, <<OscInt(0)>>),
          Message(SysRotation, <<OscInt(90)>>),
          Message(SysSize, <<OscInt(8), OscInt(8)>>),
          Message(SysSize, <<OscInt(16), OscInt(8)>>),
          Message(SysPort, <<OscString(Plop)>>),
          Message(SysHost, <<OscInt(1)>>),
          Message(SysSize, <<OscInt(8), OscString(Plop)>>),
          Message(SysSize, <<OscInt(8)>>),
          MessageNoArgs(SysConnect),
          Message(SysPorts, <<OscInt(dev.port)>>),
          Message(Plop \o TiltSuffix,
                  <<OscInt(0), OscInt(1), OscInt(2), OscInt(3)>>),
          Bundle } }
    \cup {Garbage}

\* History only: the field a received packet is a well-formed message for
\* ("none" otherwise), and the value it carries, as an Option.
FieldOf(packet) ==
    LET a == packet.addr
        n == Len(packet.args)
        ty(k) == packet.args[k].t
    IN  IF packet.kind # "Message" \/ ~packet.hasArgs \/ n < 1 THEN "none"
        ELSE IF StartsWith(a, SysPort) THEN (IF ty(1) = "Int" THEN "port" ELSE "none")
        ELSE IF StartsWith(a, SysHost) THEN (IF ty(1) = "String" THEN "host" ELSE "none")
        ELSE IF StartsWith(a, SysId) THEN (IF ty(1) = "String" THEN "id" ELSE "none")
        ELSE IF StartsWith(a, SysPrefix) THEN (IF ty(1) = "String" THEN "prefix" ELSE "none")
        ELSE IF StartsWith(a, SysRotation) THEN (IF ty(1) = "Int" THEN "rotation" ELSE "none")
        ELSE IF StartsWith(a, SysSize)
            THEN (IF n >= 2 /\ ty(1) = "Int" /\ ty(2) = "Int" THEN "size" ELSE "none")
        ELSE "none"

CarriedBy(packet) ==
    LET f == FieldOf(packet)
    IN  IF f \in {"port", "rotation"} THEN Some(packet.args[1].i)
        ELSE IF f = "size" THEN Some(<<packet.args[1].i, packet.args[2].i>>)
        ELSE Some(packet.args[1].s)

\* History only: how many field messages were repeats of an earlier one.
RECURSIVE SumOver(_, _)
SumOver(S, g) ==
    IF S = {} THEN 0
    ELSE LET x == CHOOSE y \in S : TRUE IN g[x] + SumOver(S \ {x}, g)

Duplicates(arrivals) ==
    SumOver({f \in Fields : arrivals[f] > 0}, [f \in Fields |-> arrivals[f] - 1])

InitSetup ==
    /\ pc = "from_device"
    /\ device \in Devices
    /\ prefixArg \in {Plop, SysNs \o Plop}
    /\ busyPorts \in {{}, {<<START_PORT, START_PORT>>}}
    /\ localPort = 0
    /\ info = MonomeInfo_new
    /\ monome = None
    /\ wire = <<>>
    /\ outQ = <<>>
    /\ senderParked = FALSE
    /\ inQ = <<>>
    /\ sockIn = <<>>
    /\ rpc = "none"
    /\ hsStarted = FALSE
    /\ hsArrivals = [f \in Fields |-> 0]
    /\ hsCarried = MonomeInfo_new
    /\ hsLast = "none"
    /\ hsBundle = FALSE
    /\ nCmd = 0
    /\ accepted = <<>>
    /\ lastCmd = "none"
    /\ refusals = {}
    /\ nArrived = 0
    /\ nReceived = 0
    /\ delivered = <<>>
    /\ overflowed = {}
    /\ lastEvent = NotPolled
    /\ lastBuf = None
    /\ traffic = PollDatagrams
    /\ leds = <<>>
    /\ lastCall = NoCall
    /\ WatchIdle
    /\ BindIdle
    /\ EnumIdle
    /\ notReadySends = 0
    /\ lostOut = {}
    /\ sawClosed = FALSE
    /\ sockErr = FALSE

sessionVars == <<monome, rpc, sockErr, outVars, inVars>>

\* setup: bind the socket and send /sys/port with its port.
SetupSendPort ==
    /\ pc = "from_device"
    /\ LET p == new_bound_socket(busyPorts)
       IN  IF p = 0
           THEN /\ pc' = "panicked"
                /\ UNCHANGED <<localPort, wire>>
           ELSE /\ localPort' = p
                /\ wire' = Append(wire, Sent(device.port, encode(SetupPortMsg(p)), 0))
                /\ pc' = "sent_port"
    /\ UNCHANGED <<watchVars, bindVars, enumVars, traffic, callVars, device, prefixArg, busyPorts, info, hsStarted, hsArrivals,
                   hsCarried, hsLast, hsBundle,
                   sessionVars>>

\* setup: send /sys/host with the socket's local address.
SetupSendHost ==
    /\ pc = "sent_port"
    /\ wire' = Append(wire, Sent(device.port, encode(SetupHostMsg), 0))
    /\ pc' = "sent_host"
    /\ UNCHANGED <<watchVars, bindVars, enumVars, traffic, callVars, setupVars, sessionVars>>

\* Mutant of SetupSendPrefix: a fixed prefix is sent, not the caller's.
SetupSendPrefix_fixed ==
    /\ pc = "sent_host"
    /\ wire' = Append(wire, Sent(device.port, encode(SetupPrefixMsg(Plop)), 0))
    /\ pc' = "sent_prefix"
    /\ UNCHANGED <<watchVars, bindVars, enumVars, traffic, callVars, setupVars, sessionVars>>

\* setup: send /sys/prefix with the caller's prefix.
SetupSendPrefix ==
    /\ pc = "sent_host"
    /\ wire' = Append(wire, Sent(device.port, encode(SetupPrefixMsg(prefixArg)), 0))
    /\ pc' = "sent_prefix"
    /\ UNCHANGED <<watchVars, bindVars, enumVars, traffic, callVars, setupVars, sessionVars>>

\* setup: send /sys/info and create the MonomeInfo.
SetupSendInfo ==
    /\ pc = "sent_prefix"
    /\ wire' = Append(wire, Sent(device.port, encode(SetupInfoMsg), 0))
    /\ info' = MonomeInfo_new
    /\ pc' = "handshake"
    /\ UNCHANGED <<watchVars, bindVars, enumVars, traffic, callVars, device, prefixArg, busyPorts, localPort, hsStarted,
                   hsArrivals, hsCarried, hsLast, hsBundle,
                   sessionVars>>

\* Any send_dgram(..).wait().unwrap() or recv_dgram(..).wait().unwrap() of
\* setup panics when the socket returns an error.
SetupSocketError ==
    /\ pc \in {"sent_port", "sent_host", "sent_prefix", "handshake"}
    /\ pc' = "panicked"
    /\ UNCHANGED <<watchVars, bindVars, enumVars, traffic, callVars, wire, setupVars, sessionVars>>

\* Mutant of SetupRecv: the loop gives up, with an error, on a datagram that
\* fills no field.
SetupRecv_gives_up ==
    /\ pc = "handshake"
    /\ \E dgram \in HandshakeDatagrams(device) :
        LET d == decode(dgram)
            f == FieldOf(d.packet)
            r == fill(info, d.packet)
        IN  /\ hsStarted' = TRUE
            /\ IF d.err
               THEN /\ pc' = "panicked"
                    /\ UNCHANGED <<info, hsArrivals, hsCarried, hsLast, hsBundle>>
               ELSE /\ (f # "none" /\ hsArrivals[f] > 0) =>
                           Duplicates(hsArrivals) < MaxDuplicates
                    /\ hsArrivals' =
                           IF f = "none" THEN hsArrivals
                           ELSE [hsArrivals EXCEPT ![f] = @ + 1]
                    /\ hsCarried' =
                           IF f = "none" \/ hsArrivals[f] > 0 THEN hsCarried
                           ELSE [hsCarried EXCEPT ![f] = CarriedBy(d.packet)]
                    /\ hsLast' = IF f = "none" THEN hsLast ELSE f
                    /\ hsBundle' = (hsBundle \/ d.packet.kind = "Bundle")
                    /\ info' = r.val
                    /\ pc' = IF r.panic THEN "panicked"
                             ELSE IF complete(r.val) THEN "setup_returned"
                             ELSE IF f = "none" THEN "timed_out"
                             ELSE "handshake"
    /\ UNCHANGED <<watchVars, bindVars, enumVars, traffic, callVars, device, prefixArg, busyPorts, localPort, wire, sessionVars>>

\* setup: what one turn of the receive loop does with the datagram it
\* received: decode (unwrap), fill, and leave the loop when the info is
\* complete.
SetupTurn(dgram) ==
    LET d == decode(dgram)
        f == FieldOf(d.packet)
        r == fill(info, d.packet)
    IN  /\ hsStarted' = TRUE
        /\ IF d.err
           THEN /\ pc' = "panicked"
                /\ UNCHANGED <<info, hsArrivals, hsCarried, hsLast, hsBundle>>
           ELSE /\ (f # "none" /\ hsArrivals[f] > 0) =>
                       Duplicates(hsArrivals) < MaxDuplicates
                /\ hsArrivals' =
                       IF f = "none" THEN hsArrivals
                       ELSE [hsArrivals EXCEPT ![f] = @ + 1]
                /\ hsCarried' =
                       IF f = "none" \/ hsArrivals[f] > 0 THEN hsCarried
                       ELSE [hsCarried EXCEPT ![f] = CarriedBy(d.packet)]
                /\ hsLast' = IF f = "none" THEN hsLast ELSE f
                /\ hsBundle' = (hsBundle \/ d.packet.kind = "Bundle")
                /\ info' = r.val
                /\ pc' = IF r.panic THEN "panicked"
                         ELSE IF complete(r.val) THEN "setup_returned"
                         ELSE "handshake"

\* setup: one turn of the receive loop: receive, decode
\* (unwrap), fill, and leave the loop when the info is complete.
SetupRecv ==
    /\ pc = "handshake"
    /\ \E dgram \in HandshakeDatagrams(device) : SetupTurn(dgram)
    /\ UNCHANGED <<watchVars, bindVars, enumVars, traffic, callVars, device, prefixArg, busyPorts, localPort, wire, sessionVars>>

\* from_device: the channel, the queue, the Transport and its
\* thread, and the Monome.
FromDeviceSpawn ==
    /\ pc = "setup_returned"
    /\ outQ' = <<>>
    /\ senderParked' = FALSE
    /\ inQ' = <<>>
    /\ rpc' = "drain"
    /\ monome' = Some([name |-> device.name,
                       device_type |-> device.device_type,
                       host |-> Unwrap(info.host),
                       id |-> Unwrap(info.id),
                       port |-> device.port,
                       prefix |-> prefixArg,
                       rotation |-> Unwrap(info.rotation),
                       size |-> Unwrap(info.size)])
    /\ pc' = "session"
    /\ UNCHANGED <<watchVars, bindVars, enumVars, traffic, callVars, wire, sockErr, setupVars, sockIn, nArrived, nReceived,
                   delivered, overflowed, lastEvent, lastBuf, nCmd, accepted, lastCmd,
                   refusals, notReadySends, lostOut, sawClosed>>

NextSetup ==
    \/ SetupSendPort
    \/ SetupSendHost
    \/ SetupSendPrefix
    \/ SetupSendInfo
    \/ SetupSocketError
    \/ SetupRecv
    \/ FromDeviceSpawn

-----------------------------------------------------------------------------
(* Monome::enumerate_devices_with_port and Monome::new_with_port *)

SerialoscList == SerialoscNs \o <<"/","l","i","s","t">>

\* The clock advances in steps of half the timeout.
Tick == DEVICE_ENUMERATION_TIMEOUT_MS \div 2

\* A datagram with the instant it reached the socket.
Arrival(dgram, at) == [dgram |-> dgram, at |-> at]

\* The /serialosc/list request.
ListMsg(port) ==
    build_osc_message(SerialoscList, <<OscString(Localhost), OscInt(port)>>)

\* What serialosc (or a device) may send to the enumerating socket: two
\* device announcements, an announcement whose port is not an integer, an
\* announcement without arguments, a tilt message, a bundle, and bytes that
\* do not decode.
EnumDatagrams ==
    { encode(m) : m \in
        { Message(SerialoscDevice,
                  <<OscString(IdA), OscString(NameGrid), OscInt(1234)>>),
          Message(SerialoscDevice,
                  <<OscString(IdB), OscString(NameArc), OscInt(1235)>>),
          Message(SerialoscDevice,
                  <<OscString(IdA), OscString(NameGrid), OscString(Plop)>>),
          MessageNoArgs(SerialoscDevice),
          Message(Plop \o TiltSuffix,
                  <<OscInt(0), OscInt(1), OscInt(2), OscInt(3)>>),
          Bundle } }
    \cup {Garbage}

\* if let [OscType::String(name), OscType::String(device_type),
\*         OscType::Int(port)] = args.as_slice()
IsDeviceArgs(args) ==
    /\ Len(args) = 3
    /\ args[1].t = "String"
    /\ args[2].t = "String"
    /\ args[3].t = "Int"

\* Mutant of enumerate_match: an announcement whose arguments do not match
\* leaves the loop, like one without arguments.
enumerate_match_breaks_on_mismatch(devs, packet) ==
    IF packet.kind = "Bundle" THEN [devices |-> devs, break |-> FALSE]
    ELSE IF packet.addr # SerialoscDevice
        THEN [devices |-> devs, break |-> FALSE]
    ELSE IF ~packet.hasArgs THEN [devices |-> devs, break |-> TRUE]
    ELSE IF IsDeviceArgs(packet.args)
        THEN [devices |-> Append(devs, MonomeDevice_new(packet.args[1].s,
                                                        packet.args[2].s,
                                                        packet.args[3].i)),
              break |-> FALSE]
    ELSE [devices |-> devs, break |-> TRUE]

\* Mutant of enumerate_match: a new descriptor goes to the front of the list.
enumerate_match_prepend(devs, packet) ==
    IF packet.kind = "Bundle" THEN [devices |-> devs, break |-> FALSE]
    ELSE IF packet.addr # SerialoscDevice
        THEN [devices |-> devs, break |-> FALSE]
    ELSE IF ~packet.hasArgs THEN [devices |-> devs, break |-> TRUE]
    ELSE IF IsDeviceArgs(packet.args)
        THEN [devices |-> <<MonomeDevice_new(packet.args[1].s,
                                             packet.args[2].s,
                                             packet.args[3].i)>> \o devs,
              break |-> FALSE]
    ELSE [devices |-> devs, break |-> FALSE]

\* The body of enumerate's match on a decoded packet: the new list, and
\* whether the loop is left with `break`.
enumerate_match(devs, packet) ==
    IF packet.kind = "Bundle" THEN [devices |-> devs, break |-> FALSE]
    ELSE IF packet.addr # SerialoscDevice
        THEN [devices |-> devs, break |-> FALSE]
    ELSE IF ~packet.hasArgs THEN [devices |-> devs, break |-> TRUE]
    ELSE IF IsDeviceArgs(packet.args)
        THEN [devices |-> Append(devs, MonomeDevice_new(packet.args[1].s,
                                                        packet.args[2].s,
                                                        packet.args[3].i)),
              break |-> FALSE]
    ELSE [devices |-> devs, break |-> FALSE]

\* The MonomeDevice of a caller that has none yet.
NoDevice == [name |-> <<>>, device_type |-> "Grid", port |-> 0]

\* The caller is about to call new_with_port(prefixArg, SERIALOSC_PORT).
InitEnum ==
    /\ pc = "new_with_port"
    /\ device = NoDevice
    /\ prefixArg \in {Plop, SysNs \o Plop}
    /\ busyPorts \in {{}, {<<START_PORT, START_PORT>>}}
    /\ localPort = 0
    /\ info = MonomeInfo_new
    /\ monome = None
    /\ wire = <<>>
    /\ outQ = <<>>
    /\ senderParked = FALSE
    /\ inQ = <<>>
    /\ sockIn = <<>>
    /\ rpc = "none"
    /\ hsStarted = FALSE
    /\ hsArrivals = [f \in Fields |-> 0]
    /\ hsCarried = MonomeInfo_new
    /\ hsLast = "none"
    /\ hsBundle = FALSE
    /\ nCmd = 0
    /\ accepted = <<>>
    /\ lastCmd = "none"
    /\ refusals = {}
    /\ nArrived = 0
    /\ nReceived = 0
    /\ delivered = <<>>
    /\ overflowed = {}
    /\ lastEvent = NotPolled
    /\ lastBuf = None
    /\ traffic = PollDatagrams
    /\ leds = <<>>
    /\ lastCall = NoCall
    /\ WatchIdle
    /\ BindIdle
    /\ notReadySends = 0
    /\ lostOut = {}
    /\ sawClosed = FALSE
    /\ sockErr = FALSE
    /\ epc = "list"
    /\ now = 0
    /\ deadline = 0
    /\ devices = <<>>
    /\ eSock = <<>>
    /\ eLog = <<>>
    /\ eRecv = <<>>

\* enumerate: bind a socket, send /serialosc/list with its address, and
\* enter the loop, whose first turn arms the Delay.
EnumList ==
    /\ epc = "list"
    /\ LET p == new_bound_socket(busyPorts)
       IN  IF p = 0
           THEN /\ epc' = "panicked"
                /\ pc' = "panicked"
                /\ UNCHANGED <<wire, deadline>>
           ELSE /\ wire' = Append(wire, Sent(SERIALOSC_PORT, encode(ListMsg(p)), 0))
                /\ deadline' = now + DEVICE_ENUMERATION_TIMEOUT_MS
                /\ epc' = "listening"
                /\ UNCHANGED pc
    /\ UNCHANGED <<now, devices, eSock, eLog, eRecv, traffic, callVars, watchVars, bindVars, setupVars,
                   sessionVars>>

\* serialosc or a device sends a datagram to the enumerating socket; once
\* enumerate has returned the socket is closed and the datagram is lost.
SerialoscSends ==
    /\ epc \in {"listening", "returned"}
    /\ Len(eLog) < MaxAnnounce
    /\ \E dgram \in EnumDatagrams :
        /\ eLog' = Append(eLog, Arrival(dgram, now))
        /\ eSock' = IF epc = "listening"
                    THEN Append(eSock, Arrival(dgram, now)) ELSE eSock
    /\ UNCHANGED <<epc, now, deadline, devices, eRecv, traffic, callVars, watchVars, bindVars, pc, wire,
                   setupVars, sessionVars>>

\* One turn of the loop in which recv_dgram wins the select2: decode
\* (unwrap), match, and either break or go round again, which arms a new
\* Delay.
EnumRecv ==
    /\ epc = "listening"
    /\ eSock # <<>>
    /\ LET d == decode(Head(eSock).dgram)
           r == enumerate_match(devices, d.packet)
       IN  /\ eRecv' = Append(eRecv, Head(eSock))
           /\ IF d.err
              THEN /\ epc' = "panicked"
                   /\ pc' = "panicked"
                   /\ eSock' = <<>>
                   /\ UNCHANGED <<devices, deadline>>
              ELSE /\ devices' = r.devices
                   /\ UNCHANGED pc
                   /\ IF r.break
                      THEN /\ epc' = "returned"
                           /\ eSock' = <<>>
                           /\ UNCHANGED deadline
                      ELSE /\ epc' = "listening"
                           /\ eSock' = Tail(eSock)
                           /\ deadline' = now + DEVICE_ENUMERATION_TIMEOUT_MS
    /\ UNCHANGED <<now, eLog, traffic, callVars, watchVars, bindVars, wire, setupVars, sessionVars>>

\* The turn in which the Delay wins: select2 polls recv_dgram first, so the
\* Delay wins only when the socket holds nothing.
EnumTimeout ==
    /\ epc = "listening"
    /\ eSock = <<>>
    /\ now >= deadline
    /\ epc' = "returned"
    /\ UNCHANGED <<now, deadline, devices, eSock, eLog, eRecv, traffic, callVars, watchVars, bindVars, pc,
                   wire, setupVars, sessionVars>>

\* recv_dgram returns an error: panic!("{:?}", e).
EnumSocketError ==
    /\ epc = "listening"
    /\ epc' = "panicked"
    /\ pc' = "panicked"
    /\ eSock' = <<>>
    /\ UNCHANGED <<now, deadline, devices, eLog, eRecv, traffic, callVars, watchVars, bindVars, wire,
                   setupVars, sessionVars>>

\* Time passes while enumerate is blocked in its loop: neither a datagram
\* in the socket nor an expired Delay is left waiting.
TimePasses ==
    /\ epc = "listening"
    /\ eSock = <<>>
    /\ now < deadline
    /\ now + Tick <= MaxTime
    /\ now' = now + Tick
    /\ UNCHANGED <<epc, deadline, devices, eSock, eLog, eRecv, traffic, callVars, watchVars, bindVars, pc,
                   wire, setupVars, sessionVars>>

\* Mutant of NewWithPort: the list is not tested for emptiness.
NewWithPort_unchecked ==
    /\ pc = "new_with_port"
    /\ epc = "returned"
    /\ pc' = "from_device"
    /\ device' = IF devices = <<>> THEN NoDevice ELSE devices[1]
    /\ UNCHANGED <<watchVars, bindVars, enumVars, traffic, callVars, wire, prefixArg, busyPorts, localPort,
                   info, hsStarted, hsArrivals, hsCarried, hsLast, hsBundle,
                   sessionVars>>

\* new_with_port, once enumerate has returned Ok(devices).
NewWithPort ==
    /\ pc = "new_with_port"
    /\ epc = "returned"
    /\ IF devices = <<>>
       THEN /\ pc' = "no_devices"
            /\ UNCHANGED device
       ELSE /\ pc' = "from_device"
            /\ device' = devices[1]
    /\ UNCHANGED <<watchVars, bindVars, enumVars, traffic, callVars, wire, prefixArg, busyPorts, localPort,
                   info, hsStarted, hsArrivals, hsCarried, hsLast, hsBundle,
                   sessionVars>>

NextEnum ==
    \/ EnumList
    \/ SerialoscSends
    \/ EnumRecv
    \/ EnumTimeout
    \/ EnumSocketError
    \/ TimePasses
    \/ NewWithPort
    \/ SetupSendPort
    \/ SetupSendHost
    \/ SetupSendPrefix
    \/ SetupSendInfo

SpecEnum == InitEnum /\ [][NextEnum]_vars

-----------------------------------------------------------------------------
(* Monome::register_device_change_callback_with_port *)

\* No device is being set up and there is no session: the program runs
\* only a function that has no Monome.
NoSession ==
    /\ pc = "none"
    /\ device = NoDevice
    /\ prefixArg = Plop
    /\ localPort = 0
    /\ info = MonomeInfo_new
    /\ monome = None
    /\ wire = <<>>
    /\ outQ = <<>>
    /\ senderParked = FALSE
    /\ inQ = <<>>
    /\ sockIn = <<>>
    /\ rpc = "none"
    /\ hsStarted = FALSE
    /\ hsArrivals = [f \in Fields |-> 0]
    /\ hsCarried = MonomeInfo_new
    /\ hsLast = "none"
    /\ hsBundle = FALSE
    /\ nCmd = 0
    /\ accepted = <<>>
    /\ lastCmd = "none"
    /\ refusals = {}
    /\ nArrived = 0
    /\ nReceived = 0
    /\ delivered = <<>>
    /\ overflowed = {}
    /\ lastEvent = NotPolled
    /\ lastBuf = None
    /\ traffic = PollDatagrams
    /\ leds = <<>>
    /\ lastCall = NoCall
    /\ notReadySends = 0
    /\ lostOut = {}
    /\ sawClosed = FALSE
    /\ sockErr = FALSE
    /\ EnumIdle

\* DeviceChangeEvent
Added(id) == [type |-> "Added", id |-> id]
Removed(id) == [type |-> "Removed", id |-> id]
NoChange == [type |-> "none", id |-> <<>>]

\* The /serialosc/notify registration.
NotifyMsg(port) ==
    build_osc_message(SerialoscNotify, <<OscString(Localhost), OscInt(port)>>)

\* What serialosc (or anyone else) may send to the watcher's socket: a device
\* added and a device removed, the same with an integer for the id and
\* without arguments, /sys/connect, a device announcement, a message to
\* /serialosc/added, a bundle, and bytes that do not decode.
WatchDatagrams ==
    { encode(m) : m \in
        { Message(SerialoscAdd, <<OscString(IdA)>>),
          Message(SerialoscRemove, <<OscString(IdB)>>),
          Message(SerialoscAdd, <<OscInt(1)>>),
          Message(SerialoscRemove, <<OscInt(1)>>),
          MessageNoArgs(SerialoscAdd),
          MessageNoArgs(SerialoscRemove),
          MessageNoArgs(SysConnect),
          Message(SerialoscDevice,
                  <<OscString(IdA), OscString(NameGrid), OscInt(1234)>>),
          Message(SerialoscAdd \o <<"e","d">>, <<OscString(IdA)>>),
          Bundle } }
    \cup {Garbage}

\* History only: an entry of the watcher's log: a registration sent, a
\* datagram received, or a call of the callback.
WEntry(k, dgram, ev) == [k |-> k, dgram |-> dgram, ev |-> ev]
WCount(log, k) == Cardinality({j \in 1..Len(log) : log[j].k = k})

\* The closure given to recv_dgram, for a decoded packet: the flag it
\* leaves and the events it calls the callback with.
watch_handle(need, packet) ==
    LET keep == [panic |-> FALSE, need |-> need, calls |-> <<>>]
        args == packet.args
    IN  IF packet.kind = "Bundle" THEN keep
        ELSE IF ~packet.hasArgs THEN keep
        ELSE IF StartsWith(packet.addr, SerialoscAdd) THEN
            IF Len(args) < 1 THEN [keep EXCEPT !.panic = TRUE, !.need = TRUE]
            ELSE IF args[1].t = "String"
                THEN [panic |-> FALSE, need |-> TRUE,
                      calls |-> <<Added(args[1].s)>>]
            ELSE [keep EXCEPT !.need = TRUE]
        ELSE IF StartsWith(packet.addr, SerialoscRemove) THEN
            IF Len(args) < 1 THEN [keep EXCEPT !.panic = TRUE]
            ELSE IF args[1].t = "String"
                THEN [panic |-> FALSE, need |-> TRUE,
                      calls |-> <<Removed(args[1].s)>>]
            ELSE keep
        ELSE keep

WatchFrame ==
    UNCHANGED <<bindVars, enumVars, traffic, callVars, pc, monome, wire, rpc,
                sockErr, setupVars, outVars, inVars>>

\* The top of the loop with need_notify_msg set: the registration is sent
\* and the flag cleared.
WatchNotify ==
    /\ wpc = "loop"
    /\ need_notify_msg
    /\ wLog' = Append(wLog, WEntry("notify", encode(NotifyMsg(START_PORT)),
                                   NoChange))
    /\ need_notify_msg' = FALSE
    /\ wpc' = "recv"
    /\ WatchFrame

\* The top of the loop with need_notify_msg clear: nothing is sent.
WatchNoNotify ==
    /\ wpc = "loop"
    /\ ~need_notify_msg
    /\ wpc' = "recv"
    /\ UNCHANGED <<need_notify_msg, wLog>>
    /\ WatchFrame

\* recv_dgram returns a datagram: decode (unwrap) and the closure.
WatchRecv ==
    /\ wpc = "recv"
    /\ WCount(wLog, "recv") < MaxWatched
    /\ \E dgram \in WatchDatagrams :
        LET d == decode(dgram)
            r == watch_handle(need_notify_msg, d.packet)
            got == Append(wLog, WEntry("recv", dgram, NoChange))
        IN  IF d.err
            THEN /\ wLog' = got
                 /\ wpc' = "panicked"
                 /\ UNCHANGED need_notify_msg
            ELSE /\ wLog' = got \o [j \in 1..Len(r.calls) |->
                                       WEntry("callback", dgram, r.calls[j])]
                 /\ need_notify_msg' = r.need
                 /\ wpc' = IF r.panic THEN "panicked" ELSE "loop"
    /\ WatchFrame

\* send_dgram(..).wait().unwrap() and recv_dgram(..).wait().unwrap() panic
\* when the socket returns an error.
WatchSocketError ==
    /\ \/ wpc = "loop" /\ need_notify_msg
       \/ wpc = "recv"
    /\ wpc' = "panicked"
    /\ UNCHANGED <<need_notify_msg, wLog>>
    /\ WatchFrame

\* The state when the watcher's thread starts.
InitWatch ==
    /\ NoSession
    /\ busyPorts = {}
    /\ BindIdle
    /\ wpc = "loop"
    /\ need_notify_msg = TRUE
    /\ wLog = <<>>

NextWatch ==
    \/ WatchNotify
    \/ WatchNoNotify
    \/ WatchRecv
    \/ WatchSocketError

SpecWatch == InitWatch /\ [][NextWatch]_vars

-----------------------------------------------------------------------------
(* new_bound_socket, one turn of its loop at a time *)

BindFrame ==
    UNCHANGED <<watchVars, enumVars, traffic, callVars, pc, monome, wire, rpc,
                sockErr, device, prefixArg, busyPorts, info, hsStarted,
                hsArrivals, hsCarried, hsLast, hsBundle, sessionVars>>

\* format!("127.0.0.1:{}", port).parse().unwrap() with a port that is not a
\* u16: the parse fails and the unwrap panics, before any bind.
BindParsePanic ==
    /\ bpc = "scan"
    /\ bport > PortCeiling
    /\ bpc' = "panicked"
    /\ UNCHANGED <<bport, bTried, localPort>>
    /\ BindFrame

\* UdpSocket::bind succeeds: break socket.
BindOk ==
    /\ bpc = "scan"
    /\ bport <= PortCeiling
    /\ ~Taken(bport, busyPorts)
    /\ bTried' = bport
    /\ localPort' = bport
    /\ bpc' = "bound"
    /\ UNCHANGED bport
    /\ BindFrame

\* Mutant of BindBusy: after the last port the scan starts again.
BindBusy_wraps ==
    /\ bpc = "scan"
    /\ bport <= PortCeiling
    /\ Taken(bport, busyPorts)
    /\ bTried' = bport
    /\ bport' = IF bport = PortCeiling THEN START_PORT ELSE bport + 1
    /\ UNCHANGED <<bpc, localPort>>
    /\ BindFrame

\* UdpSocket::bind fails: panic if port > 65535, else port += 1.
BindBusy ==
    /\ bpc = "scan"
    /\ bport <= PortCeiling
    /\ Taken(bport, busyPorts)
    /\ bTried' = bport
    /\ IF bport > PortCeiling
       THEN bpc' = "panicked" /\ UNCHANGED bport
       ELSE bport' = bport + 1 /\ UNCHANGED bpc
    /\ UNCHANGED localPort
    /\ BindFrame

\* new_bound_socket is called with none, some or all of the ports taken.
InitBind ==
    /\ NoSession
    /\ WatchIdle
    /\ busyPorts \in { {}, {<<START_PORT, START_PORT>>},
                       {<<START_PORT + 1, START_PORT + 1>>},
                       {<<START_PORT, START_PORT + 1>>},
                       {<<START_PORT, START_PORT>>, <<START_PORT + 2, PortCeiling>>},
                       {<<START_PORT, PortCeiling - 1>>},
                       {<<START_PORT, PortCeiling>>},
                       {<<0, PortCeiling + 1>>} }
    /\ bpc = "scan"
    /\ bport = START_PORT
    /\ bTried = 0

NextBind ==
    \/ BindParsePanic
    \/ BindOk
    \/ BindBusy

SpecBind == InitBind /\ [][NextBind]_vars /\ WF_vars(NextBind)

-----------------------------------------------------------------------------
(* The session: the state from_device leaves behind *)

SessionDevice == MonomeDevice_new(IdA, NameGrid, 1234)

SessionInfo ==
    [port |-> Some(1234), host |-> Some(Localhost), prefix |-> Some(Plop),
     id |-> Some(IdA), size |-> Some(<<8, 8>>), rotation |-> Some(0)]

\* The state right after from_device(SessionDevice, "/plop") returned, every
\* field having arrived once.
InitSession ==
    /\ pc = "session"
    /\ device = SessionDevice
    /\ prefixArg = Plop
    /\ busyPorts = {}
    /\ localPort = START_PORT
    /\ info = SessionInfo
    /\ monome = Some([name |-> IdA, device_type |-> "Grid",
                      host |-> Localhost, id |-> IdA, port |-> 1234,
                      prefix |-> Plop, rotation |-> 0, size |-> <<8, 8>>])
    /\ wire = << Sent(1234, encode(SetupPortMsg(START_PORT)), 0),
                 Sent(1234, encode(SetupHostMsg), 0),
                 Sent(1234, encode(SetupPrefixMsg(Plop)), 0),
                 Sent(1234, encode(SetupInfoMsg), 0) >>
    /\ outQ = <<>>
    /\ senderParked = FALSE
    /\ inQ = <<>>
    /\ sockIn = <<>>
    /\ rpc = "drain"
    /\ hsStarted = TRUE
    /\ hsArrivals = [f \in Fields |-> 1]
    /\ hsCarried = SessionInfo
    /\ hsLast = "size"
    /\ hsBundle = FALSE
    /\ nCmd = 0
    /\ accepted = <<>>
    /\ lastCmd = "none"
    /\ refusals = {}
    /\ nArrived = 0
    /\ nReceived = 0
    /\ delivered = <<>>
    /\ overflowed = {}
    /\ lastEvent = NotPolled
    /\ lastBuf = None
    /\ traffic = PollDatagrams
    /\ leds = <<>>
    /\ lastCall = NoCall
    /\ WatchIdle
    /\ BindIdle
    /\ EnumIdle
    /\ notReadySends = 0
    /\ lostOut = {}
    /\ sawClosed = FALSE
    /\ sockErr = FALSE

\* The Sender lives as long as the Monome; the Receiver and the socket as
\* long as the Transport's future has not returned an error.
SenderAlive == pc = "session"
TransportAlive == rpc \in {"drain", "recv", "parked"}

-----------------------------------------------------------------------------
(* futures::sync::mpsc::channel(OutboundBuffer), one Sender *)

\* Mutant of try_send: a full channel gives up its oldest frame for the new.
try_send_overwrite(q, parked, open, frame) ==
    IF ~open
        THEN [ok |-> FALSE, err |-> "disconnected", q |-> q, parked |-> parked]
    ELSE IF parked
        THEN [ok |-> TRUE, err |-> "none", q |-> Append(Tail(q), frame),
              parked |-> parked]
    ELSE [ok |-> TRUE, err |-> "none", q |-> Append(q, frame),
          parked |-> Len(q) + 1 > OutboundBuffer]

\* Sender::try_send. A parked sender is refused (full); a sender that is not
\* parked adds its message, and parks when the channel then holds more than
\* `buffer` messages: each sender has one slot beyond the buffer.
try_send(q, parked, open, frame) ==
    IF parked THEN [ok |-> FALSE, err |-> "full", q |-> q, parked |-> parked]
    ELSE IF ~open
        THEN [ok |-> FALSE, err |-> "disconnected", q |-> q, parked |-> parked]
    ELSE [ok |-> TRUE, err |-> "none", q |-> Append(q, frame),
          parked |-> Len(q) + 1 > OutboundBuffer]

-----------------------------------------------------------------------------
(* Commands *)

\* A frame in the channel: the encoded packet and, for the history, its
\* sequence number among the commands of the session.
Frame(seq, packet) == [seq |-> seq, bytes |-> encode(packet)]

\* Monome::send_no_prefix(addr, args), up to its try_send: the packet that
\* is encoded.
send_no_prefix(addr, args) == Message(addr, args)

\* Mutant of send: the address is sent as it is.
send_as_is(self, addr, args) == send_no_prefix(addr, args)

\* Monome::send(addr, args): the address is put behind self.prefix.
send(self, addr, args) == send_no_prefix(self.prefix \o addr, args)

\* send_no_prefix, from its try_send on, for each packet of a call in turn:
\* the frame goes into the channel, or the refusal is logged. `st` is the
\* channel, whether the Sender is parked, the number of the latest frame,
\* the frames accepted, the latest outcome and the refusals seen.
RECURSIVE try_send_all(_, _, _)
try_send_all(st, open, packets) ==
    IF packets = <<>> THEN st
    ELSE LET r == try_send(st.q, st.parked, open,
                           Frame(st.n + 1, Head(packets)))
         IN  try_send_all(
                 [q |-> r.q, parked |-> r.parked, n |-> st.n + 1,
                  acc |-> IF r.ok THEN Append(st.acc, st.n + 1) ELSE st.acc,
                  last |-> IF r.ok THEN "sent" ELSE r.err,
                  errs |-> IF r.ok THEN st.errs ELSE st.errs \cup {r.err}],
                 open, Tail(packets))

\* A command call that hands `packets` to send_no_prefix, one after the
\* other; a call that sends nothing ends as a no-op.
Command(op, ints, on, variant, packets) ==
    LET r == try_send_all([q |-> outQ, parked |-> senderParked, n |-> nCmd,
                           acc |-> accepted, last |-> "noop",
                           errs |-> refusals],
                          TransportAlive, packets)
    IN  /\ outQ' = r.q
        /\ senderParked' = r.parked
        /\ nCmd' = r.n
        /\ accepted' = r.acc
        /\ lastCmd' = r.last
        /\ refusals' = r.errs
        /\ lastCall' = Call(op, ints, on, variant, packets)

\* Mutant of tilt_all: the packet goes out through send_no_prefix.
tilt_all_no_prefix(self, on) ==
    <<send_no_prefix(TiltSet, <<OscInt(0), OscInt(IF on THEN 1 ELSE 0)>>)>>

\* Monome::tilt_all(on)
tilt_all(self, on) ==
    <<send(self, TiltSet, <<OscInt(0), OscInt(IF on THEN 1 ELSE 0)>>)>>

\* The caller calls tilt_all(true).
CallTiltAll ==
    /\ pc = "session"
    /\ nCmd < MaxSends
    /\ Command("tilt_all", <<>>, TRUE, "bool", tilt_all(Unwrap(monome), TRUE))
    /\ UNCHANGED <<watchVars, bindVars, enumVars, traffic, leds, pc, monome, wire, rpc, sockErr,
                   setupVars, inVars, notReadySends, lostOut, sawClosed>>

-----------------------------------------------------------------------------
(* IntoAddrAndArgs *)

Level == <<"l","e","v","e","l","/">>
GridLed == <<"/","g","r","i","d","/","l","e","d","/">>
RingSet == <<"/","r","i","n","g","/","s","e","t">>
RingAll == <<"/","r","i","n","g","/","a","l","l">>
RingRange == <<"/","r","i","n","g","/","r","a","n","g","e">>
RingMap == <<"/","r","i","n","g","/","m","a","p">>

\* The argument types that implement IntoAddrAndArgs: i32, bool, u8,
\* &[u8; 8], &[u8; 64] and &[bool; 64].
ArgI32(v) == [variant |-> "i32", i |-> v, on |-> FALSE, data |-> <<>>, bools |-> <<>>]
ArgBool(b) == [variant |-> "bool", i |-> 0, on |-> b, data |-> <<>>, bools |-> <<>>]
ArgU8(v) == [variant |-> "u8", i |-> v, on |-> FALSE, data |-> <<>>, bools |-> <<>>]
ArgU8x8(d) == [variant |-> "u8x8", i |-> 0, on |-> FALSE, data |-> d, bools |-> <<>>]
ArgU8x64(d) == [variant |-> "u8x64", i |-> 0, on |-> FALSE, data |-> d, bools |-> <<>>]
ArgBoolx64(d) == [variant |-> "boolx64", i |-> 0, on |-> FALSE, data |-> <<>>, bools |-> d]

\* toidx(x, y, width), for the non-negative values it is called with
toidx(x, y, width) == y * width + x

\* u8::rotate_left(1)
rotate_left_1(mask) == ((mask * 2) % 256) + (mask \div 128)

\* mask | if b { 1 } else { 0 }
or_bit(mask, b) == IF b /\ mask % 2 = 0 THEN mask + 1 ELSE mask

\* Mutant of pack_row: the columns are taken from 0 upward.
RECURSIVE pack_row_ascending(_, _, _)
pack_row_ascending(bits, j, mask) ==
    IF j < 0 THEN mask
    ELSE pack_row_ascending(bits, j - 1,
                            or_bit(rotate_left_1(mask), bits[8 - j]))

\* for j in (0..8).rev() { mask = mask.rotate_left(1) | bit j of the row }:
\* the turns from j downward, bits[j + 1] being the led of column j.
RECURSIVE pack_row(_, _, _)
pack_row(bits, j, mask) ==
    IF j < 0 THEN mask
    ELSE pack_row(bits, j - 1, or_bit(rotate_left_1(mask), bits[j + 1]))

\* The masks of the 8 rows of the quadrant at (x0, y0) of a buffer that is
\* `width` leds wide.
quad_masks(buf, x0, y0, width) ==
    [r \in 1..8 |->
        pack_row([c \in 1..8 |-> buf[toidx(x0 + c - 1, y0 + r - 1, width) + 1]],
                 7, 0)]

OscInts(d) == [j \in 1..Len(d) |-> OscInt(d[j])]

\* Mutant of as_addr_frag_and_args: an i32 has no address fragment.
as_addr_frag_and_args_plain(arg) ==
    IF arg.variant = "bool"
        THEN [frag |-> <<>>, args |-> <<OscInt(IF arg.on THEN 1 ELSE 0)>>]
    ELSE IF arg.variant \in {"i32", "u8"}
        THEN [frag |-> <<>>, args |-> <<OscInt(arg.i)>>]
    ELSE IF arg.variant = "u8x8" THEN [frag |-> <<>>, args |-> OscInts(arg.data)]
    ELSE IF arg.variant = "u8x64" THEN [frag |-> Level, args |-> OscInts(arg.data)]
    ELSE [frag |-> <<>>, args |-> OscInts(quad_masks(arg.bools, 0, 0, 8))]

\* as_addr_frag_and_args: the address fragment and the OSC arguments.
as_addr_frag_and_args(arg) ==
    IF arg.variant = "i32" THEN [frag |-> Level, args |-> <<OscInt(arg.i)>>]
    ELSE IF arg.variant = "bool"
        THEN [frag |-> <<>>, args |-> <<OscInt(IF arg.on THEN 1 ELSE 0)>>]
    ELSE IF arg.variant = "u8" THEN [frag |-> <<>>, args |-> <<OscInt(arg.i)>>]
    ELSE IF arg.variant = "u8x8" THEN [frag |-> <<>>, args |-> OscInts(arg.data)]
    ELSE IF arg.variant = "u8x64" THEN [frag |-> Level, args |-> OscInts(arg.data)]
    ELSE [frag |-> <<>>, args |-> OscInts(quad_masks(arg.bools, 0, 0, 8))]

-----------------------------------------------------------------------------
(* The grid, ring and /sys commands: the packets each call sends *)

\* Monome::set(x, y, arg)
set(self, x, y, arg) ==
    IF self.device_type # "Grid" THEN <<>>
    ELSE LET fa == as_addr_frag_and_args(arg)
         IN  <<send(self, GridLed \o fa.frag \o <<"s","e","t">>,
                    <<OscInt(x), OscInt(y), fa.args[1]>>)>>

\* Monome::all(arg)
all(self, arg) ==
    IF self.device_type # "Grid" THEN <<>>
    ELSE LET fa == as_addr_frag_and_args(arg)
         IN  <<send(self, GridLed \o fa.frag \o <<"a","l","l">>, <<fa.args[1]>>)>>

\* Mutant of map: the device type is not tested.
map_unchecked(self, x_offset, y_offset, masks) ==
    LET fa == as_addr_frag_and_args(masks)
    IN  <<send(self, GridLed \o fa.frag \o <<"m","a","p">>,
               <<OscInt(x_offset), OscInt(y_offset)>> \o fa.args)>>

\* Monome::map(x_offset, y_offset, masks)
map(self, x_offset, y_offset, masks) ==
    IF self.device_type # "Grid" THEN <<>>
    ELSE LET fa == as_addr_frag_and_args(masks)
         IN  <<send(self, GridLed \o fa.frag \o <<"m","a","p">>,
                    <<OscInt(x_offset), OscInt(y_offset)>> \o fa.args)>>

\* Monome::row(x_offset, y, leds)
row(self, x_offset, y, arg) ==
    IF self.device_type # "Grid" THEN <<>>
    ELSE LET fa == as_addr_frag_and_args(arg)
         IN  <<send(self, GridLed \o fa.frag \o <<"r","o","w">>,
                    <<OscInt(x_offset), OscInt(y)>> \o fa.args)>>

\* Monome::col(x, y_offset, leds)
col(self, x, y_offset, arg) ==
    IF self.device_type # "Grid" THEN <<>>
    ELSE LET fa == as_addr_frag_and_args(arg)
         IN  <<send(self, GridLed \o fa.frag \o <<"c","o","l">>,
                    <<OscInt(x), OscInt(y_offset)>> \o fa.args)>>

\* Mutant of quad_calls: the two offsets of map are exchanged.
RECURSIVE quad_calls_exchanged(_, _, _, _)
quad_calls_exchanged(self, q, n, quads) ==
    IF q >= n THEN <<>>
    ELSE LET width_in_quad == self.size[1] \div 8
             a == q \div width_in_quad
             b == q % width_in_quad
         IN  map(self, a * 8, b * 8, quads[q + 1])
             \o quad_calls_exchanged(self, q + 1, n, quads)

\* The calls of map that the two nested loops of set_all and
\* set_all_intensity make, `quad(a, b)` being the argument built for the
\* quadrant of row a and column b.
RECURSIVE quad_calls(_, _, _, _)
quad_calls(self, q, n, quads) ==
    IF q >= n THEN <<>>
    ELSE LET width_in_quad == self.size[1] \div 8
             a == q \div width_in_quad
             b == q % width_in_quad
         IN  map(self, b * 8, a * 8, quads[q + 1])
             \o quad_calls(self, q + 1, n, quads)

\* Mutant of set_all: the masks of a quadrant are stored from the last row
\* to the first.
set_all_rows_reversed(self, buf) ==
    IF self.device_type # "Grid" THEN <<>>
    ELSE LET width_in_quad == self.size[1] \div 8
             height_in_quad == self.size[2] \div 8
             width == self.size[1]
             n == width_in_quad * height_in_quad
             masks(q) == quad_masks(buf, ((q - 1) % width_in_quad) * 8,
                                    ((q - 1) \div width_in_quad) * 8, width)
         IN  quad_calls(self, 0, n,
                 [q \in 1..n |-> ArgU8x8([r \in 1..8 |-> masks(q)[9 - r]])])

\* Monome::set_all(leds), for a buffer that holds every led of the grid.
set_all(self, buf) ==
    IF self.device_type # "Grid" THEN <<>>
    ELSE LET width_in_quad == self.size[1] \div 8
             height_in_quad == self.size[2] \div 8
             width == self.size[1]
             n == width_in_quad * height_in_quad
         IN  quad_calls(self, 0, n,
                 [q \in 1..n |->
                     ArgU8x8(quad_masks(buf, ((q - 1) % width_in_quad) * 8,
                                        ((q - 1) \div width_in_quad) * 8,
                                        width))])

\* Monome::set_all_intensity(leds), for a buffer that holds every led.
set_all_intensity(self, buf) ==
    IF self.device_type # "Grid" THEN <<>>
    ELSE LET width_in_quad == self.size[1] \div 8
             height_in_quad == self.size[2] \div 8
             width == self.size[1]
             n == width_in_quad * height_in_quad
         IN  quad_calls(self, 0, n,
                 [q \in 1..n |->
                     ArgU8x64([k \in 1..64 |->
                         buf[toidx(((q - 1) % width_in_quad) * 8 + ((k - 1) % 8),
                                   ((q - 1) \div width_in_quad) * 8 + ((k - 1) \div 8),
                                   width) + 1]])])

\* Monome::ring_set(n, index, intensity)
ring_set(self, n, index, intensity) ==
    IF self.device_type # "Arc" THEN <<>>
    ELSE <<send(self, RingSet, <<OscInt(n), OscInt(index), OscInt(intensity)>>)>>

\* Monome::ring_all(n, intensity)
ring_all(self, n, intensity) ==
    IF self.device_type # "Arc" THEN <<>>
    ELSE <<send(self, RingAll, <<OscInt(n), OscInt(intensity)>>)>>

\* Monome::ring_range(n, start_offset, end_offset, intensity)
ring_range(self, n, start_offset, end_offset, intensity) ==
    IF self.device_type # "Arc" THEN <<>>
    ELSE <<send(self, RingRange,
                <<OscInt(n), OscInt(start_offset), OscInt(end_offset),
                  OscInt(intensity)>>)>>

\* Monome::ring_map(n, values): the device type is not tested.
ring_map(self, n, values) ==
    <<send(self, RingMap, <<OscInt(n)>> \o OscInts(values))>>

\* Monome::set_rotation(rotation), its send
set_rotation(rotation) == <<send_no_prefix(SysRotation, <<OscInt(rotation)>>)>>

\* Monome::set_prefix(prefix), its send
set_prefix(prefix) == <<send_no_prefix(SysPrefix, <<OscString(prefix)>>)>>

\* The caller drops the Monome: its Sender goes, which closes the channel.
DropMonome ==
    /\ pc = "session"
    /\ pc' = "dropped"
    /\ monome' = None
    /\ UNCHANGED <<watchVars, bindVars, enumVars, traffic, callVars, wire, rpc, sockErr, setupVars, outVars, inVars>>

-----------------------------------------------------------------------------
(* The caller calls grid, ring and /sys commands *)

\* The caller's intensities, made from its buffer: 0 for a dark led.
LevelsOf(buf) == [j \in 1..Len(buf) |-> IF buf[j] THEN 1 + (j % 15) ELSE 0]

RowMasks == <<1, 2, 4, 8, 16, 32, 64, 128>>

CanCall == pc = "session" /\ nCmd < MaxCommands

\* What a command call leaves alone.
CallFrame ==
    UNCHANGED <<watchVars, bindVars, enumVars, traffic, leds, pc, wire, rpc, sockErr, setupVars,
                inVars, notReadySends, lostOut, sawClosed>>

CallSet ==
    /\ CanCall
    /\ \E xy \in {<<0, 0>>, <<7, 3>>} :
       \E arg \in {ArgBool(TRUE), ArgBool(FALSE)}
                  \cup (IF xy = <<7, 3>> THEN {ArgI32(v) : v \in {0, 5, 15}} ELSE {}) :
           Command("set", <<xy[1], xy[2], arg.i>>, arg.on, arg.variant,
                   set(Unwrap(monome), xy[1], xy[2], arg))
    /\ CallFrame
    /\ UNCHANGED monome

\* set(x, y, intensity), for every intensity of [0, 16).
CallSetIntensity ==
    /\ CanCall
    /\ \E xy \in {<<0, 0>>, <<7, 3>>, <<15, 15>>} : \E v \in 0..15 :
           Command("set", <<xy[1], xy[2], v>>, FALSE, "i32",
                   set(Unwrap(monome), xy[1], xy[2], ArgI32(v)))
    /\ CallFrame
    /\ UNCHANGED monome

CallAll ==
    /\ CanCall
    /\ \E arg \in {ArgBool(TRUE), ArgBool(FALSE), ArgI32(0), ArgI32(15)} :
           Command("all", <<arg.i>>, arg.on, arg.variant,
                   all(Unwrap(monome), arg))
    /\ CallFrame
    /\ UNCHANGED monome

CallSetAll ==
    /\ CanCall
    /\ Command("set_all", <<>>, FALSE, "bools", set_all(Unwrap(monome), leds))
    /\ CallFrame
    /\ UNCHANGED monome

CallSetAllIntensity ==
    /\ CanCall
    /\ Command("set_all_intensity", <<>>, FALSE, "u8s",
               set_all_intensity(Unwrap(monome), LevelsOf(leds)))
    /\ CallFrame
    /\ UNCHANGED monome

CallMap ==
    /\ CanCall
    /\ \E xy \in {<<0, 0>>, <<8, 0>>} :
       \E arg \in {ArgBoolx64(SubSeq(leds, 1, 64)),
                   ArgU8x64(LevelsOf(SubSeq(leds, 1, 64))),
                   ArgU8x8(RowMasks)} :
           Command("map", xy, FALSE, arg.variant,
                   map(Unwrap(monome), xy[1], xy[2], arg))
    /\ CallFrame
    /\ UNCHANGED monome

CallRow ==
    /\ CanCall
    /\ \E xy \in {<<0, 0>>, <<8, 7>>} :
       \E arg \in {ArgU8(255), ArgU8x8(RowMasks)} :
           Command("row", xy, FALSE, arg.variant,
                   row(Unwrap(monome), xy[1], xy[2], arg))
    /\ CallFrame
    /\ UNCHANGED monome

CallCol ==
    /\ CanCall
    /\ \E xy \in {<<0, 0>>, <<7, 8>>} :
       \E arg \in {ArgU8(255), ArgU8x8(RowMasks)} :
           Command("col", xy, FALSE, arg.variant,
                   col(Unwrap(monome), xy[1], xy[2], arg))
    /\ CallFrame
    /\ UNCHANGED monome

CallRingSet ==
    /\ CanCall
    /\ \E a \in {<<0, 0, 15>>, <<3, 63, 1>>} :
           Command("ring_set", a, FALSE, "u32",
                   ring_set(Unwrap(monome), a[1], a[2], a[3]))
    /\ CallFrame
    /\ UNCHANGED monome

CallRingAll ==
    /\ CanCall
    /\ \E a \in {<<0, 15>>, <<3, 0>>} :
           Command("ring_all", a, FALSE, "u32",
                   ring_all(Unwrap(monome), a[1], a[2]))
    /\ CallFrame
    /\ UNCHANGED monome

CallRingRange ==
    /\ CanCall
    /\ \E a \in {<<0, 0, 32, 15>>, <<1, 60, 4, 7>>} :
           Command("ring_range", a, FALSE, "u32",
                   ring_range(Unwrap(monome), a[1], a[2], a[3], a[4]))
    /\ CallFrame
    /\ UNCHANGED monome

CallRingMap ==
    /\ CanCall
    /\ \E n \in {0, 1} :
           Command("ring_map", <<n>>, FALSE, "u8x64",
                   ring_map(Unwrap(monome), n, LevelsOf(SubSeq(leds, 1, 64))))
    /\ CallFrame
    /\ UNCHANGED monome

\* Mutant of CallSetRotation: the size is turned with the rotation.
CallSetRotation_turns_size ==
    /\ CanCall
    /\ \E rotation \in {0, 90} :
        /\ Command("set_rotation", <<rotation>>, FALSE, "i32",
                   set_rotation(rotation))
        /\ monome' = Some([Unwrap(monome) EXCEPT
                              !.rotation = rotation,
                              !.size = IF rotation = 90 THEN <<@[2] + 8, @[1]>> ELSE @])
    /\ CallFrame

\* set_rotation: the send, then self.rotation = rotation.
CallSetRotation ==
    /\ CanCall
    /\ \E rotation \in {0, 90} :
        /\ Command("set_rotation", <<rotation>>, FALSE, "i32",
                   set_rotation(rotation))
        /\ monome' = Some([Unwrap(monome) EXCEPT !.rotation = rotation])
    /\ CallFrame

\* Mutant of CallSetPrefix: the field is assigned only when the frame was
\* accepted.
CallSetPrefix_if_accepted ==
    /\ CanCall
    /\ \E prefix \in {Plop, Mono} :
        /\ Command("set_prefix", <<>>, FALSE, "String", set_prefix(prefix))
        /\ monome' = IF lastCmd' = "sent"
                      THEN Some([Unwrap(monome) EXCEPT !.prefix = prefix])
                      ELSE monome
    /\ CallFrame

\* set_prefix: the send, then self.prefix = prefix.
CallSetPrefix ==
    /\ CanCall
    /\ \E prefix \in {Plop, Mono} :
        /\ Command("set_prefix", <<>>, FALSE, "String", set_prefix(prefix))
        /\ monome' = Some([Unwrap(monome) EXCEPT !.prefix = prefix])
    /\ CallFrame

\* tilt_all(false)
CallTiltOff ==
    /\ CanCall
    /\ Command("tilt_all", <<>>, FALSE, "bool", tilt_all(Unwrap(monome), FALSE))
    /\ CallFrame
    /\ UNCHANGED monome

\* The sessions the commands are called on: grids of the three sizes, and
\* an arc.
CmdSessions ==
    { [dev |-> MonomeDevice_new(IdA, NameGrid, 1234), size |-> <<8, 8>>],
      [dev |-> MonomeDevice_new(IdA, NameGrid, 1234), size |-> <<16, 8>>],
      [dev |-> MonomeDevice_new(IdA, NameGrid, 1234), size |-> <<16, 16>>],
      [dev |-> MonomeDevice_new(IdB, NameArc, 1235), size |-> <<0, 0>>] }

\* The caller's buffer holds every led of the device, and 64 at least.
BufferLen(size) == IF size[1] * size[2] < 64 THEN 64 ELSE size[1] * size[2]

\* The state right after from_device(dev, P) returned for a device of the
\* given size, the caller holding the buffer buf. `io` gives what the two
\* queues hold and where the reactor is: the frames in the channel and
\* whether the Sender is parked, how many datagrams wait in the inbound
\* queue and what they may be, and whether the Transport has failed.
InitSessionWith(dev, size, P, buf, io) ==
    /\ pc = "session"
    /\ device = dev
    /\ prefixArg = P
    /\ busyPorts = {}
    /\ localPort = START_PORT
    /\ info = [SessionInfo EXCEPT !.port = Some(dev.port), !.prefix = Some(P),
                                  !.id = Some(dev.name), !.size = Some(size)]
    /\ monome = Some([name |-> dev.name, device_type |-> dev.device_type,
                      host |-> Localhost, id |-> dev.name, port |-> dev.port,
                      prefix |-> P, rotation |-> 0, size |-> size])
    /\ wire = << Sent(dev.port, encode(SetupPortMsg(START_PORT)), 0),
                 Sent(dev.port, encode(SetupHostMsg), 0),
                 Sent(dev.port, encode(SetupPrefixMsg(P)), 0),
                 Sent(dev.port, encode(SetupInfoMsg), 0) >>
    /\ outQ = io.outQ
    /\ senderParked = io.parked
    /\ inQ = [j \in 1..io.queued |-> j]
    /\ sockIn = <<>>
    /\ rpc = io.rpc
    /\ hsStarted = TRUE
    /\ hsArrivals = [f \in Fields |-> 1]
    /\ hsCarried = info
    /\ hsLast = "size"
    /\ hsBundle = FALSE
    /\ nCmd = 0
    /\ accepted = <<>>
    /\ lastCmd = "none"
    /\ refusals = {}
    /\ nArrived = io.queued
    /\ nReceived = io.queued
    /\ delivered = <<>>
    /\ overflowed = {}
    /\ lastEvent = NotPolled
    /\ lastBuf = None
    /\ traffic = io.traffic
    /\ leds = buf
    /\ lastCall = NoCall
    /\ WatchIdle
    /\ BindIdle
    /\ notReadySends = 0
    /\ lostOut = {}
    /\ sawClosed = FALSE
    /\ sockErr = io.failed
    /\ EnumIdle

\* Nothing is queued and the reactor is running.
QuietIo ==
    [outQ |-> <<>>, parked |-> FALSE, queued |-> 0, rpc |-> "drain",
     traffic |-> PollDatagrams, failed |-> FALSE]

InitCall(dev, size, P, buf) == InitSessionWith(dev, size, P, buf, QuietIo)

\* The caller's buffer of n leds: an irregular pattern of lit and dark.
CmdBuffer(n) == [j \in 1..n |-> j % 3 = 1 \/ j % 7 = 0]

InitCmd ==
    \E c \in CmdSessions :
        InitCall(c.dev, c.size, Plop, CmdBuffer(BufferLen(c.size)))

NextCmd ==
    \/ CallSet
    \/ CallAll
    \/ CallSetAll
    \/ CallSetAllIntensity
    \/ CallMap
    \/ CallRow
    \/ CallCol
    \/ CallRingSet
    \/ CallRingAll
    \/ CallRingRange
    \/ CallRingMap
    \/ CallSetRotation
    \/ CallSetPrefix

SpecCmd == InitCmd /\ [][NextCmd]_vars

\* Buffers of the 64 leds of an 8x8 grid: one led lit, two leds of the first
\* row and column lit, none lit, and the same with lit and dark exchanged.
PackBuffers ==
    LET few == {{}} \cup {{j} : j \in 1..64}
               \cup {{j, k} : j, k \in (1..8) \cup {9, 17, 25, 33, 41, 49, 57, 64}}
    IN  {[j \in 1..64 |-> j \in S] : S \in few}
        \cup {[j \in 1..64 |-> j \notin S] : S \in few}

InitPack ==
    \E buf \in PackBuffers :
        InitCall(MonomeDevice_new(IdA, NameGrid, 1234), <<8, 8>>, Plop, buf)

NextPack ==
    \/ CallMap
    \/ CallSetAll

SpecPack == InitPack /\ [][NextPack]_vars

\* set on a grid, with every intensity.
InitSet ==
    \E P \in {Plop, Mono} :
        InitCall(MonomeDevice_new(IdA, NameGrid, 1234), <<16, 16>>, P,
                 CmdBuffer(256))

NextSet ==
    \/ CallSet
    \/ CallSetIntensity

SpecSet == InitSet /\ [][NextSet]_vars

-----------------------------------------------------------------------------
(* Monome::poll *)

\* Monome::poll on an empty queue.
PollEmpty ==
    /\ pc = "session"
    /\ inQ = <<>>
    /\ lastEvent' = NoEvent
    /\ lastBuf' = None
    /\ UNCHANGED <<watchVars, bindVars, enumVars, traffic, callVars, pc, monome, wire, rpc, sockErr, setupVars, outVars,
                   inQ, sockIn, nArrived, nReceived, delivered, overflowed>>

\* Mutant of PollFrame: a frame that gives no event is skipped and the next
\* one is popped with it.
PollFrame_skips ==
    /\ pc = "session"
    /\ inQ # <<>>
    /\ \E buf \in traffic :
        LET r == parse(Unwrap(monome).prefix, buf)
            two == ~r.panic /\ r.val = NoEvent /\ Len(inQ) > 1
        IN  /\ inQ' = IF two THEN Tail(Tail(inQ)) ELSE Tail(inQ)
            /\ delivered' = IF two THEN delivered \o <<inQ[1], inQ[2]>>
                            ELSE Append(delivered, Head(inQ))
            /\ lastBuf' = Some(buf)
            /\ IF r.panic
               THEN /\ pc' = "panicked"
                    /\ monome' = None
                    /\ UNCHANGED lastEvent
               ELSE /\ lastEvent' = r.val
                    /\ UNCHANGED <<pc, monome>>
    /\ UNCHANGED <<watchVars, bindVars, enumVars, traffic, callVars, wire, rpc, sockErr, setupVars, outVars,
                   sockIn, nArrived, nReceived, overflowed>>

\* Monome::poll on a queue that holds a frame: pop it and parse it; a panic
\* in parse unwinds the caller, which drops the Monome.
PollFrame ==
    /\ pc = "session"
    /\ inQ # <<>>
    /\ \E buf \in traffic :
        LET r == parse(Unwrap(monome).prefix, buf)
        IN  /\ inQ' = Tail(inQ)
            /\ delivered' = Append(delivered, Head(inQ))
            /\ lastBuf' = Some(buf)
            /\ IF r.panic
               THEN /\ pc' = "panicked"
                    /\ monome' = None
                    /\ UNCHANGED lastEvent
               ELSE /\ lastEvent' = r.val
                    /\ UNCHANGED <<pc, monome>>
    /\ UNCHANGED <<watchVars, bindVars, enumVars, traffic, callVars, wire, rpc, sockErr, setupVars, outVars,
                   sockIn, nArrived, nReceived, overflowed>>

-----------------------------------------------------------------------------
(* The device *)

\* The device sends a datagram to the session's socket.
DeviceSends ==
    /\ TransportAlive
    /\ nArrived < MaxDatagrams
    /\ nArrived' = nArrived + 1
    /\ sockIn' = Append(sockIn, nArrived + 1)
    /\ UNCHANGED <<watchVars, bindVars, enumVars, traffic, callVars, pc, monome, wire, rpc, sockErr, setupVars, outVars,
                   inQ, nReceived, delivered, overflowed, lastEvent, lastBuf>>

-----------------------------------------------------------------------------
(* Transport: Future::poll *)

\* The Transport is dropped when its future returns an error: the Receiver
\* goes, and with it the frames still in the channel; the socket is closed.
TransportDropped ==
    /\ outQ' = <<>>
    /\ senderParked' = FALSE
    /\ sockIn' = <<>>
    /\ rpc' = "failed"

\* First loop, rx.poll() = Ready(Some(b)), poll_send_to = Ready: the frame
\* goes to the device's address and the loop goes on.
DrainSend ==
    /\ rpc = "drain"
    /\ outQ # <<>>
    /\ outQ' = Tail(outQ)
    /\ senderParked' = FALSE
    /\ wire' = Append(wire, Sent(device.port, Head(outQ).bytes, Head(outQ).seq))
    /\ UNCHANGED <<watchVars, bindVars, enumVars, traffic, callVars, pc, monome, rpc, sockErr, setupVars, inVars, nCmd, accepted,
                   lastCmd, refusals, notReadySends, lostOut, sawClosed>>

\* First loop, rx.poll() = Ready(Some(b)), poll_send_to = NotReady:
\* try_ready! returns NotReady from poll, and b is dropped with it.
DrainSendNotReady ==
    /\ rpc = "drain"
    /\ outQ # <<>>
    /\ notReadySends < MaxSendNotReady
    /\ outQ' = Tail(outQ)
    /\ senderParked' = FALSE
    /\ notReadySends' = notReadySends + 1
    /\ lostOut' = lostOut \cup {Head(outQ).seq}
    /\ rpc' = "parked"
    /\ UNCHANGED <<watchVars, bindVars, enumVars, traffic, callVars, pc, monome, wire, sockErr, setupVars, inVars, nCmd, accepted,
                   lastCmd, refusals, sawClosed>>

\* First loop, rx.poll() = Ready(Some(b)), poll_send_to = Err: try_ready!
\* returns the error from poll, which ends the future.
DrainSendError ==
    /\ rpc = "drain"
    /\ outQ # <<>>
    /\ sockErr' = TRUE
    /\ lostOut' = lostOut \cup {outQ[j].seq : j \in 1..Len(outQ)}
    /\ TransportDropped
    /\ UNCHANGED <<watchVars, bindVars, enumVars, traffic, callVars, pc, monome, wire, setupVars, inQ, nArrived, nReceived,
                   delivered, overflowed, lastEvent, lastBuf, nCmd, accepted, lastCmd,
                   refusals, notReadySends, sawClosed>>

\* Mutant of DrainBreak: an empty channel ends the future.
DrainBreak_exits ==
    /\ rpc = "drain"
    /\ outQ = <<>>
    /\ sawClosed' = (sawClosed \/ ~SenderAlive)
    /\ rpc' = "done"
    /\ UNCHANGED <<watchVars, bindVars, enumVars, traffic, callVars, pc, monome, wire, sockErr, setupVars, inVars, outQ,
                   senderParked, nCmd, accepted, lastCmd, refusals,
                   notReadySends, lostOut>>

\* First loop, rx.poll() = NotReady (empty, Sender alive) or Ready(None)
\* (empty, Sender gone): both break to the second loop.
DrainBreak ==
    /\ rpc = "drain"
    /\ outQ = <<>>
    /\ sawClosed' = (sawClosed \/ ~SenderAlive)
    /\ rpc' = "recv"
    /\ UNCHANGED <<watchVars, bindVars, enumVars, traffic, callVars, pc, monome, wire, sockErr, setupVars, inVars, outQ,
                   senderParked, nCmd, accepted, lastCmd, refusals,
                   notReadySends, lostOut>>

\* Mutant of push: a full queue gives up its oldest element for the new.
push_evict(q, x) ==
    IF Len(q) >= InboundCapacity THEN [ok |-> TRUE, q |-> Append(Tail(q), x)]
    ELSE [ok |-> TRUE, q |-> Append(q, x)]

\* Mutant of push: the queue has no capacity.
push_unbounded(q, x) == [ok |-> TRUE, q |-> Append(q, x)]

\* ArrayQueue::push
push(q, x) ==
    IF Len(q) >= InboundCapacity THEN [ok |-> FALSE, q |-> q]
    ELSE [ok |-> TRUE, q |-> Append(q, x)]

\* Mutant of RecvReady: a failed push returns NotReady from poll.
RecvReady_returns_on_overflow ==
    /\ rpc = "recv"
    /\ sockIn # <<>>
    /\ LET r == push(inQ, Head(sockIn))
       IN  /\ inQ' = r.q
           /\ overflowed' = IF r.ok THEN overflowed
                            ELSE overflowed \cup {Head(sockIn)}
           /\ rpc' = IF r.ok THEN "recv" ELSE "parked"
    /\ sockIn' = Tail(sockIn)
    /\ nReceived' = nReceived + 1
    /\ UNCHANGED <<watchVars, bindVars, enumVars, traffic, callVars, pc, monome, wire, sockErr, setupVars, outVars,
                   nArrived, delivered, lastEvent, lastBuf>>

\* Second loop, poll_recv = Ready: push the buffer; the loop goes on whether
\* the push succeeded or not.
RecvReady ==
    /\ rpc = "recv"
    /\ sockIn # <<>>
    /\ LET r == push(inQ, Head(sockIn))
       IN  /\ inQ' = r.q
           /\ overflowed' = IF r.ok THEN overflowed
                            ELSE overflowed \cup {Head(sockIn)}
    /\ sockIn' = Tail(sockIn)
    /\ nReceived' = nReceived + 1
    /\ UNCHANGED <<watchVars, bindVars, enumVars, traffic, callVars, pc, monome, wire, rpc, sockErr, setupVars, outVars,
                   nArrived, delivered, lastEvent, lastBuf>>

\* Second loop, poll_recv = NotReady: poll returns NotReady.
RecvNotReady ==
    /\ rpc = "recv"
    /\ sockIn = <<>>
    /\ rpc' = "parked"
    /\ UNCHANGED <<watchVars, bindVars, enumVars, traffic, callVars, pc, monome, wire, sockErr, setupVars, outVars, inVars>>

\* Second loop, poll_recv = Err: poll returns the error.
RecvError ==
    /\ rpc = "recv"
    /\ sockErr' = TRUE
    /\ lostOut' = lostOut \cup {outQ[j].seq : j \in 1..Len(outQ)}
    /\ TransportDropped
    /\ UNCHANGED <<watchVars, bindVars, enumVars, traffic, callVars, pc, monome, wire, setupVars, inQ, nArrived, nReceived,
                   delivered, overflowed, lastEvent, lastBuf, nCmd, accepted, lastCmd,
                   refusals, notReadySends, sawClosed>>

\* The executor polls the future again after a wake-up: a frame or the close
\* of the channel, or the socket becoming readable or writable.
Wake ==
    /\ rpc = "parked"
    /\ rpc' = "drain"
    /\ UNCHANGED <<watchVars, bindVars, enumVars, traffic, callVars, pc, monome, wire, sockErr, setupVars, outVars, inVars>>

-----------------------------------------------------------------------------
(* Specifications *)

Reactor ==
    \/ DrainSend
    \/ DrainSendNotReady
    \/ DrainSendError
    \/ DrainBreak
    \/ RecvNotReady
    \/ RecvError
    \/ Wake

\* from_device, followed by the commands of the caller.
NextFromDevice ==
    \/ NextSetup
    \/ CallTiltAll

SpecSetup == InitSetup /\ [][NextFromDevice]_vars

\* The session under load from both sides and without faults: the caller
\* sends and does not poll, the device sends, the socket returns no error.
NextLoad ==
    \/ CallTiltAll
    \/ DeviceSends
    \/ DrainSend
    \/ DrainBreak
    \/ RecvReady
    \/ RecvNotReady
    \/ Wake

SpecLoad == InitSession /\ [][NextLoad]_vars

\* The session with outbound traffic only: the device sends nothing.
NextOut ==
    \/ CallTiltAll
    \/ DropMonome
    \/ Reactor

SpecOut == InitSession /\ [][NextOut]_vars

\* The session with inbound traffic only: the caller polls, and sends nothing.
NextIn ==
    \/ PollEmpty
    \/ PollFrame
    \/ DropMonome
    \/ DeviceSends
    \/ RecvReady
    \/ DrainBreak
    \/ RecvNotReady
    \/ RecvError
    \/ Wake

SpecIn == InitSession /\ [][NextIn]_vars

\* Polling a session whose reactor has queued frames.
PollPrefixes == {Plop, Mono, SysNs \o Plop, SerialoscNs \o Plop}

\* What a device, serialosc or anyone else may send under prefix P: the four
\* events (keys with values 1, 0 and 2, an encoder numbered -1), the same
\* addresses with too few arguments, a string among them or none at all,
\* addresses that extend a known one or are unknown.
PrefixedDatagrams(P) ==
    { encode(m) : m \in
        { Message(P \o GridKeySuffix, <<OscInt(1), OscInt(2), OscInt(1)>>),
          Message(P \o GridKeySuffix, <<OscInt(3), OscInt(0), OscInt(0)>>),
          Message(P \o GridKeySuffix, <<OscInt(1), OscInt(2), OscInt(2)>>),
          Message(P \o TiltSuffix, <<OscInt(0), OscInt(1), OscInt(2), OscInt(3)>>),
          Message(P \o EncDeltaSuffix, <<OscInt(1), OscInt(-3)>>),
          Message(P \o EncKeySuffix, <<OscInt(2), OscInt(1)>>),
          Message(P \o EncKeySuffix, <<OscInt(0), OscInt(-1)>>),
          Message(P \o EncKeySuffix, <<OscInt(-1), OscInt(1)>>),
          Message(P \o GridKeySuffix, <<OscInt(1), OscInt(2)>>),
          Message(P \o GridKeySuffix, <<OscInt(1), OscInt(2), OscString(Plop)>>),
          Message(P \o TiltSuffix, <<OscInt(0), OscInt(1), OscInt(2)>>),
          Message(P \o EncDeltaSuffix, <<OscString(Plop), OscInt(1)>>),
          Message(P \o EncKeySuffix, <<OscInt(1), OscInt(1), OscInt(1)>>),
          MessageNoArgs(P \o GridKeySuffix),
          Message(P \o GridKeySuffix \o <<"s">>, <<OscInt(1), OscInt(2), OscInt(1)>>),
          Message(P \o <<"x">> \o GridKeySuffix, <<OscInt(1), OscInt(2), OscInt(1)>>),
          Message(P \o <<"/","l","e","d">>, <<OscInt(1)>>) } }

\* Everything the polled session may find in its queue: the above for each
\* prefix, messages of the two reserved namespaces, a bundle, and bytes that
\* do not decode.
ParseDatagrams ==
    UNION {PrefixedDatagrams(P) : P \in PollPrefixes}
    \cup { encode(m) : m \in
            { Message(SysPrefix, <<OscString(Plop)>>),
              Message(SysRotation, <<OscInt(90)>>),
              Message(SerialoscDevice,
                      <<OscString(IdA), OscString(NameGrid), OscInt(1234)>>),
              Message(SerialoscAdd, <<OscString(IdB)>>),
              Message(SerialoscRemove, <<OscString(IdB)>>),
              Bundle } }
    \cup {Garbage}

\* The state some time after from_device(SessionDevice, P) returned: the
\* device has sent QueuedFrames datagrams, the reactor has pushed them all
\* and waits for the socket, and the caller has not polled yet.
InitPoll ==
    \E P \in PollPrefixes :
        /\ pc = "session"
        /\ device = SessionDevice
        /\ prefixArg = P
        /\ busyPorts = {}
        /\ localPort = START_PORT
        /\ info = [SessionInfo EXCEPT !.prefix = Some(P)]
        /\ monome = Some([name |-> IdA, device_type |-> "Grid",
                          host |-> Localhost, id |-> IdA, port |-> 1234,
                          prefix |-> P, rotation |-> 0, size |-> <<8, 8>>])
        /\ wire = << Sent(1234, encode(SetupPortMsg(START_PORT)), 0),
                     Sent(1234, encode(SetupHostMsg), 0),
                     Sent(1234, encode(SetupPrefixMsg(P)), 0),
                     Sent(1234, encode(SetupInfoMsg), 0) >>
        /\ outQ = <<>>
        /\ senderParked = FALSE
        /\ inQ = [j \in 1..QueuedFrames |-> j]
        /\ sockIn = <<>>
        /\ rpc = "parked"
        /\ hsStarted = TRUE
        /\ hsArrivals = [f \in Fields |-> 1]
        /\ hsCarried = [SessionInfo EXCEPT !.prefix = Some(P)]
        /\ hsLast = "size"
        /\ hsBundle = FALSE
        /\ nCmd = 0
        /\ accepted = <<>>
        /\ lastCmd = "none"
        /\ refusals = {}
        /\ nArrived = QueuedFrames
        /\ nReceived = QueuedFrames
        /\ delivered = <<>>
        /\ overflowed = {}
        /\ lastEvent = NotPolled
        /\ lastBuf = None
        /\ traffic = ParseDatagrams
        /\ leds = <<>>
        /\ lastCall = NoCall
        /\ WatchIdle
        /\ BindIdle
        /\ notReadySends = 0
        /\ lostOut = {}
        /\ sawClosed = FALSE
        /\ sockErr = FALSE
        /\ EnumIdle

NextPoll ==
    \/ PollEmpty
    \/ PollFrame

SpecPoll == InitPoll /\ [][NextPoll]_vars

\* A session with one datagram in its inbound queue, a key event under
\* /plop: the caller calls every command, and polls the frame.
FacadeIo ==
    [outQ |-> <<>>, parked |-> FALSE, queued |-> 1, rpc |-> "parked",
     traffic |-> {encode(Message(Plop \o GridKeySuffix,
                                 <<OscInt(1), OscInt(2), OscInt(1)>>))},
     failed |-> FALSE]

InitFacade ==
    \E c \in { [dev |-> MonomeDevice_new(IdA, NameGrid, 1234), size |-> <<8, 8>>],
               [dev |-> MonomeDevice_new(IdB, NameArc, 1235), size |-> <<0, 0>>] } :
        InitSessionWith(c.dev, c.size, Plop, CmdBuffer(64), FacadeIo)

NextFacade ==
    \/ NextCmd
    \/ CallTiltOff
    \/ PollFrame

SpecFacade == InitFacade /\ [][NextFacade]_vars

\* A session whose caller has filled the channel before the reactor ran:
\* OutboundBuffer frames and the one of the Sender's own slot, and the
\* Sender parked. The history counts the commands from here on. The caller
\* sets the prefix and the rotation and lights leds while the reactor
\* drains the channel, or fails at a send and drops the Receiver.
FullIo ==
    [outQ |-> [j \in 1..(OutboundBuffer + 1) |->
                  Frame(j - OutboundBuffer - 1,
                        send_no_prefix(Plop \o TiltSet, <<OscInt(0), OscInt(1)>>))],
     parked |-> TRUE, queued |-> 0, rpc |-> "drain",
     traffic |-> PollDatagrams, failed |-> FALSE]

InitSetters ==
    InitSessionWith(MonomeDevice_new(IdA, NameGrid, 1234), <<8, 8>>, Plop,
                    CmdBuffer(64), FullIo)

NextSetters ==
    \/ CallSetPrefix
    \/ CallSetRotation
    \/ CallSet
    \/ DrainSend
    \/ DrainSendError

SpecSetters == InitSetters /\ [][NextSetters]_vars

\* The prefixes a session may have been opened with before its caller sets
\* another: /plop, /mono, and one that goes on after /plop with the name of
\* an event.
OpeningPrefixes == {Plop, Mono, Plop \o TiltSuffix}

\* QueuedFrames datagrams sent under the prefix P wait in the inbound
\* queue, and the reactor waits for the socket.
ReprefixIo(P) ==
    [outQ |-> <<>>, parked |-> FALSE, queued |-> QueuedFrames, rpc |-> "parked",
     traffic |-> PrefixedDatagrams(P), failed |-> FALSE]

InitReprefix ==
    \E P \in OpeningPrefixes :
        InitSessionWith(SessionDevice, <<8, 8>>, P, CmdBuffer(64), ReprefixIo(P))

NextReprefix ==
    \/ CallSetPrefix
    \/ PollFrame
    \/ PollEmpty

SpecReprefix == InitReprefix /\ [][NextReprefix]_vars

\* The whole program.
Init == InitSetup

Next ==
    \/ NextSetup
    \/ CallTiltAll
    \/ PollEmpty
    \/ PollFrame
    \/ DropMonome
    \/ DeviceSends
    \/ RecvReady
    \/ Reactor

Spec == Init /\ [][Next]_vars

-----------------------------------------------------------------------------
(* Properties *)

Range(q) == {q[j] : j \in 1..Len(q)}
Increasing(q) == \A i, j \in 1..Len(q) : i < j => q[i] < q[j]
SeqsOf(q) == [j \in 1..Len(q) |-> q[j].seq]
IsCommand(w) == w.seq > 0
CommandsOnWire == SelectSeq(wire, IsCommand)
OnWire(to, addr, args) ==
    [to |-> to, seq |-> 0,
     dgram |-> [ok |-> TRUE, kind |-> "Message", addr |-> addr, args |-> args]]
AllArrived == \A f \in Fields : hsArrivals[f] >= 1
AllArrivedOnce == \A f \in Fields : hsArrivals[f] = 1
Terminated == rpc \notin {"none", "drain", "recv", "parked"}

\* C1: setup sends /sys/port (with the port of the socket it just bound),
\* /sys/host, /sys/prefix (with the caller's prefix) and /sys/info (without
\* arguments) to the device's port, in this order and once each, and has
\* sent all four before it receives its first datagram.
C1_SetupSendsFourInOrder ==
    /\ Len(wire) <= 4
    /\ Len(wire) >= 1 =>
           /\ wire[1] = OnWire(device.port, SysPort, <<OscInt(localPort)>>)
           /\ localPort >= START_PORT
           /\ ~Taken(localPort, busyPorts)
    /\ Len(wire) >= 2 =>
           wire[2] = OnWire(device.port, SysHost, <<OscString(Localhost)>>)
    /\ Len(wire) >= 3 =>
           wire[3] = OnWire(device.port, SysPrefix, <<OscString(prefixArg)>>)
    /\ Len(wire) >= 4 => wire[4] = OnWire(device.port, SysInfo, <<>>)
    /\ (hsStarted \/ pc \in {"handshake", "setup_returned", "session"}) =>
           Len(wire) = 4

\* C1 witness: setup has returned after a handshake, for a caller's prefix
\* other than /plop and with port 10000 taken.
C1_Witness ==
    /\ pc = "setup_returned"
    /\ hsStarted
    /\ Len(wire) = 4
    /\ prefixArg # Plop
    /\ localPort = START_PORT + 1

\* C2: while a field of the six has not been received, setup has not
\* returned, there is no session and no reactor, and no command frame has
\* been enqueued.
C2_SessionOnlyWhenComplete ==
    (\E f \in Fields : hsArrivals[f] = 0) =>
        /\ pc \in {"from_device", "sent_port", "sent_host", "sent_prefix",
                   "handshake", "panicked"}
        /\ monome = None
        /\ rpc = "none"
        /\ outQ = <<>>
        /\ accepted = <<>>
        /\ nCmd = 0

\* C2 witness: a session on which a command frame was enqueued.
C2_Witness == pc = "session" /\ AllArrived /\ outQ # <<>> /\ monome # None

C4_ExitsOnClosedChannel == ~(sawClosed /\ rpc = "parked")

C6_AcceptedFramesAllSent ==
    ~sockErr =>
        /\ SeqsOf(CommandsOnWire) \o SeqsOf(outQ) = accepted
        /\ \A j \in 1..Len(wire) : wire[j].to = device.port

\* C7: the datagrams poll has popped and those in the queue are in the order
\* the reactor received them, none twice, and a received datagram is in
\* neither only when it was dropped because the queue was full.
C7_InboundFifo ==
    /\ Increasing(delivered \o inQ)
    /\ Range(delivered) \cup Range(inQ) \cup overflowed = 1..nReceived
    /\ overflowed \cap (Range(delivered) \cup Range(inQ)) = {}

\* C7 witness: a datagram was dropped on overflow and a later one was polled.
C7_Witness ==
    \E i \in overflowed : \E j \in Range(delivered) : j > i

\* C8: a command sent when the channel is full or closed changes neither the
\* channel nor what was accepted or sent, leaves the caller in the session
\* with an error logged, and its frame never shows up later.
C8_RefusedSendDropsNewFrame ==
    /\ [][(nCmd' = nCmd + 1 /\ (Len(outQ) = OutboundBuffer + 1 \/ ~TransportAlive))
            => /\ outQ' = outQ
               /\ accepted' = accepted
               /\ wire' = wire
               /\ pc' = pc
               /\ monome' = monome
               /\ rpc' = rpc
               /\ lastCmd' \in {"full", "disconnected"}]_vars
    /\ [](Range(SeqsOf(outQ)) \cup Range(SeqsOf(CommandsOnWire)) \subseteq Range(accepted))

\* C8 witness: one command was refused by a full channel and a later one by
\* a closed channel.
C8_Witness == refusals = {"full", "disconnected"} /\ pc = "session"

\* C9, as claimed: at most 16 frames in the outbound queue and 32 in the
\* inbound queue.
C9_AtMost16And32 == Len(outQ) <= OutboundBuffer /\ Len(inQ) <= InboundCapacity

\* C9, amended: at most 17 frames in the outbound queue, the buffer of 16 and
\* the one slot of the channel's only sender, and 32 in the inbound queue.
C9_AtMost17And32 ==
    Len(outQ) <= OutboundBuffer + 1 /\ Len(inQ) <= InboundCapacity

\* C9 witness: both queues are full.
C9_Witness == Len(outQ) = OutboundBuffer + 1 /\ Len(inQ) = InboundCapacity

\* C10: a datagram received while the inbound queue holds 32 is dropped, the
\* queue stays as it is, and the reactor goes on receiving; it returns from
\* poll only when the socket holds no datagram.
C10_OverflowDropsNewest ==
    /\ [][(nReceived' = nReceived + 1 /\ Len(inQ) = InboundCapacity)
            => /\ inQ' = inQ
               /\ overflowed' = overflowed \cup {Head(sockIn)}
               /\ sockIn' = Tail(sockIn)
               /\ rpc' = "recv"]_vars
    /\ [][(rpc = "recv" /\ rpc' = "parked") => sockIn = <<>>]_vars

\* C10 witness: two datagrams in a row were dropped on a full queue, and the
\* reactor then found the socket empty.
C10_Witness ==
    /\ Cardinality(overflowed) = 2
    /\ Len(inQ) = InboundCapacity
    /\ sockIn = <<>>
    /\ rpc = "parked"

-----------------------------------------------------------------------------
(* Properties of enumeration *)

\* A datagram addressed /serialosc/device, and one that also carries
\* (string, string, integer).
IsAnnouncement(dgram) ==
    dgram.ok /\ dgram.kind = "Message" /\ dgram.addr = SerialoscDevice
IsDeviceAnnouncement(dgram) ==
    /\ IsAnnouncement(dgram)
    /\ Len(dgram.args) = 3
    /\ dgram.args[1].t = "String"
    /\ dgram.args[2].t = "String"
    /\ dgram.args[3].t = "Int"

\* The descriptors of the device announcements of a log, in its order.
RECURSIVE DescriptorsOf(_)
DescriptorsOf(log) ==
    IF log = <<>> THEN <<>>
    ELSE LET a == Head(log).dgram
         IN  (IF IsDeviceAnnouncement(a)
              THEN <<[name |-> a.args[1].s,
                      device_type |-> IF Contains(a.args[2].s, NameArc)
                                      THEN "Arc" ELSE "Grid",
                      port |-> a.args[3].i]>>
              ELSE <<>>) \o DescriptorsOf(Tail(log))

\* Every announcement of the log came less than the timeout after the one
\* before it, the first less than the timeout after `last`.
RECURSIVE Timely(_, _)
Timely(log, last) ==
    IF log = <<>> THEN TRUE
    ELSE IF IsAnnouncement(Head(log).dgram)
        THEN /\ Head(log).at < last + DEVICE_ENUMERATION_TIMEOUT_MS
             /\ Timely(Tail(log), Head(log).at)
    ELSE Timely(Tail(log), last)

\* The instant of the latest announcement received, 0 (the instant of the
\* list request) when there is none.
RECURSIVE LastAnnouncementAt(_)
LastAnnouncementAt(log) ==
    IF log = <<>> THEN 0
    ELSE IF IsAnnouncement(log[Len(log)].dgram) THEN log[Len(log)].at
    ELSE LastAnnouncementAt(SubSeq(log, 1, Len(log) - 1))

AllDeviceAnnouncements(log) ==
    \A j \in 1..Len(log) :
        IsAnnouncement(log[j].dgram) => IsDeviceAnnouncement(log[j].dgram)

\* C11: the list holds one descriptor per device announcement received,
\* with the name, kind and port it carried, in the order of arrival; and when
\* enumerate has returned and every announcement serialosc sent came less than
\* 500 ms after the one before it (the first after the list request), none
\* of them is missing from the list.
C11_OneDescriptorPerAnnouncement ==
    /\ devices = DescriptorsOf(eRecv)
    /\ (epc = "returned" /\ AllDeviceAnnouncements(eLog) /\ Timely(eLog, 0)) =>
           devices = DescriptorsOf(eLog)

\* C11 witness: enumerate returned the arc and then the grid, a message that
\* is no announcement having arrived in between, and the grid's announcement
\* came 500 ms or more after the list request.
C11_Witness ==
    /\ epc = "returned"
    /\ Len(eRecv) = 3
    /\ ~IsAnnouncement(eRecv[2].dgram)
    /\ Timely(eLog, 0)
    /\ eRecv[3].at >= DEVICE_ENUMERATION_TIMEOUT_MS
    /\ Len(devices) = 2
    /\ devices[1].device_type = "Arc"
    /\ devices[2].device_type = "Grid"

\* C12: receiving a message that is no announcement leaves the deadline and
\* the list as they were.
C12_StrayKeepsDeadline ==
    [][(epc = "listening" /\ epc' = "listening" /\ Len(eRecv') = Len(eRecv) + 1
        /\ ~IsAnnouncement(Head(eSock).dgram))
          => (deadline' = deadline /\ devices' = devices)]_vars

\* C13: enumerate is not in its loop any more once 500 ms have passed since
\* the latest announcement (or since the list request).
C13_ReturnsAfterQuietWindow ==
    epc = "listening" =>
        now <= LastAnnouncementAt(eRecv) + DEVICE_ENUMERATION_TIMEOUT_MS

\* C14: enumerate returns (it does not fail) with an empty list when it
\* received no device announcement; new_with_port then ends in its error
\* with nothing but the list request sent, no socket bound for a device, no
\* session and no reactor; the error is returned in no other case, and a
\* handshake is with the first device of the list.
C14_NoDevicesNoHandshake ==
    /\ (epc = "returned" /\ DescriptorsOf(eRecv) = <<>>) =>
           /\ devices = <<>>
           /\ pc \in {"new_with_port", "no_devices"}
           /\ Len(wire) = 1
           /\ wire[1].to = SERIALOSC_PORT
           /\ localPort = 0
           /\ monome = None
           /\ rpc = "none"
    /\ pc = "no_devices" => (epc = "returned" /\ devices = <<>>)
    /\ pc \in {"from_device", "sent_port", "sent_host", "sent_prefix",
               "handshake"} =>
           /\ devices # <<>>
           /\ device = devices[1]
           /\ \A j \in 2..Len(wire) :
                  /\ wire[j].to = devices[1].port
                  /\ StartsWith(wire[j].dgram.addr, SysNs)

\* C14 witness: new_with_port returned its error after an enumeration that
\* received messages, none of them a device announcement.
C14_Witness ==
    /\ pc = "no_devices"
    /\ Len(eRecv) = 2
    /\ now >= DEVICE_ENUMERATION_TIMEOUT_MS

-----------------------------------------------------------------------------
(* Properties of poll and parse *)

\* The session's prefix, and the frame and result of the latest poll call
\* that returned.
SessionPrefix == Unwrap(monome).prefix
Polled(b) == pc = "session" /\ lastBuf = Some(b)
IsMessage(b) == b.ok /\ b.kind = "Message"
Ints(b, k) == Len(b.args) = k /\ \A j \in 1..k : b.args[j].t = "Int"
Reserved(addr) == StartsWith(addr, SerialoscNs) \/ StartsWith(addr, SysNs)
\* The value of a usize: k * 2^64 + r.
UsizeIs(u, n) == u.k = 0 /\ u.r = n

\* A step in which poll popped a frame.
Popped == delivered' # delivered

\* C15: poll can always be called and completes at once; on an empty queue it
\* returns None and the queue stays empty; on a queue that holds frames it
\* removes the oldest one and no other, whatever that frame holds.
C15_PollPopsOneOrNone ==
    /\ [](pc = "session" => ENABLED (PollEmpty \/ PollFrame))
    /\ [][Popped => /\ inQ # <<>>
                    /\ inQ' = Tail(inQ)
                    /\ delivered' = Append(delivered, Head(inQ))]_vars
    /\ [][(inQ = <<>> /\ <<lastEvent, lastBuf>>' # <<lastEvent, lastBuf>>)
            => /\ lastEvent' = NoEvent
               /\ inQ' = <<>>
               /\ pc' = "session"]_vars

\* C15 witness: poll returned None for a frame that holds no event while
\* another frame was still in the queue.
C15_Witness ==
    /\ pc = "session"
    /\ lastEvent = NoEvent
    /\ lastBuf # None
    /\ Len(delivered) = 1
    /\ inQ # <<>>

\* C16: the event decoded from <prefix>/grid/key (x, y, v) is a GridKey with
\* x and y and with Down exactly for v = 1, and the event decoded from
\* <prefix>/enc/key (n, v) is an EncoderKey whose n has the value of the
\* message's n, with Down exactly for v = 1.
C16_KeyEventsCarryArguments ==
    \A b \in traffic :
        (Polled(b) /\ IsMessage(b)) =>
            /\ (b.addr = SessionPrefix \o GridKeySuffix /\ Ints(b, 3)
                    /\ lastEvent.type = "GridKey") =>
                   /\ lastEvent.x = b.args[1].i
                   /\ lastEvent.y = b.args[2].i
                   /\ (lastEvent.direction = "Down") = (b.args[3].i = 1)
                   /\ lastEvent.direction \in {"Down", "Up"}
            /\ (b.addr = SessionPrefix \o EncKeySuffix /\ Ints(b, 2)
                    /\ lastEvent.type = "EncoderKey") =>
                   /\ UsizeIs(lastEvent.n, b.args[1].i)
                   /\ (lastEvent.direction = "Down") = (b.args[2].i = 1)
                   /\ lastEvent.direction \in {"Down", "Up"}

\* C17: popping a message whose address does not start with the session's
\* prefix, or starts with /serialosc or /sys, makes poll return None.
C17_ForeignAndReservedYieldNone ==
    [][\A b \in traffic :
          (Popped /\ lastBuf' = Some(b) /\ IsMessage(b)
             /\ (~StartsWith(b.addr, SessionPrefix) \/ Reserved(b.addr)))
          => (pc' = "session" /\ lastEvent' = NoEvent)]_vars

\* C17 witness: the second poll call returned None for <prefix>/grid/key, the
\* session's prefix being under /sys.
C17_Witness ==
    /\ pc = "session"
    /\ Len(delivered) = 2
    /\ lastEvent = NoEvent
    /\ lastBuf # None
    /\ IsMessage(Unwrap(lastBuf))
    /\ Unwrap(lastBuf).addr = SessionPrefix \o GridKeySuffix
    /\ StartsWith(SessionPrefix, SysNs)

\* C18: whatever the session's prefix P, P/grid/key with three integers,
\* P/tilt with four, P/enc/delta with two and P/enc/key with two decode to
\* a GridKey, Tilt, EncoderDelta and EncoderKey.
C18_EventsUnderEveryPrefix ==
    \A b \in traffic :
        (Polled(b) /\ IsMessage(b)) =>
            /\ (b.addr = SessionPrefix \o GridKeySuffix /\ Ints(b, 3)) =>
                   lastEvent.type = "GridKey"
            /\ (b.addr = SessionPrefix \o TiltSuffix /\ Ints(b, 4)) =>
                   lastEvent.type = "Tilt"
            /\ (b.addr = SessionPrefix \o EncDeltaSuffix /\ Ints(b, 2)) =>
                   lastEvent.type = "EncoderDelta"
            /\ (b.addr = SessionPrefix \o EncKeySuffix /\ Ints(b, 2)) =>
                   lastEvent.type = "EncoderKey"

\* The address and the arguments of one of the four events under prefix P.
IsEventMessage(P, b) ==
    \/ b.addr = P \o GridKeySuffix /\ Ints(b, 3)
    \/ b.addr = P \o TiltSuffix /\ Ints(b, 4)
    \/ b.addr = P \o EncDeltaSuffix /\ Ints(b, 2)
    \/ b.addr = P \o EncKeySuffix /\ Ints(b, 2)

\* C19: popping a message under the session's prefix that is none of the
\* four events (other arguments, or another address) makes poll return None
\* and leaves the caller in the session.
C19_MalformedYieldsNone ==
    [][\A b \in traffic :
          (Popped /\ lastBuf' = Some(b) /\ IsMessage(b)
             /\ StartsWith(b.addr, SessionPrefix)
             /\ ~IsEventMessage(SessionPrefix, b))
          => (pc' = "session" /\ lastEvent' = NoEvent)]_vars

\* C20: popping a frame that does not decode makes poll return None and
\* leaves the caller in the session.
C20_UndecodableIsSkipped ==
    [][(Popped /\ lastBuf' = Some(Garbage))
          => (pc' = "session" /\ lastEvent' = NoEvent)]_vars

-----------------------------------------------------------------------------
(* Properties of the commands and of the handshake *)

IsBundle(b) == b.ok /\ b.kind = "Bundle"

\* C21: popping a frame that holds a bundle makes poll panic: the call
\* returns neither None nor an event, and the caller leaves the session.
C21_BundleIsFatal ==
    [][\A b \in traffic :
          (Popped /\ lastBuf' = Some(b) /\ IsBundle(b))
          => (pc' = "panicked" /\ monome' = None /\ lastEvent' = lastEvent)]_vars

\* C21 witness: poll popped a bundle and panicked.
C21_Witness ==
    /\ pc = "panicked"
    /\ lastBuf # None
    /\ IsBundle(Unwrap(lastBuf))
    /\ delivered # <<>>

RingCommands == {"ring_set", "ring_all", "ring_range", "ring_map"}
GridCommands == {"set", "all", "set_all", "set_all_intensity", "map", "row", "col"}
DeviceType == Unwrap(monome).device_type

\* C22: a ring command (ring_set, ring_all, ring_range, ring_map) called on
\* a session whose device is not an Arc hands no packet to the outbound
\* queue and returns to the caller, who stays in the session.
C22_RingCommandsNeedArc ==
    (lastCall.op \in RingCommands /\ pc = "session" /\ DeviceType # "Arc")
        => lastCall.frames = <<>>

CommandPath(op, variant) ==
    LET lvl == IF variant \in {"i32", "u8x64", "u8s"} THEN Level ELSE <<>>
    IN  CASE op = "set" -> GridLed \o lvl \o <<"s","e","t">>
          [] op = "all" -> GridLed \o lvl \o <<"a","l","l">>
          [] op \in {"map", "set_all", "set_all_intensity"} ->
                 GridLed \o lvl \o <<"m","a","p">>
          [] op = "row" -> GridLed \o <<"r","o","w">>
          [] op = "col" -> GridLed \o <<"c","o","l">>
          [] op = "ring_set" -> <<"/","r","i","n","g","/","s","e","t">>
          [] op = "ring_all" -> <<"/","r","i","n","g","/","a","l","l">>
          [] op = "ring_range" -> <<"/","r","i","n","g","/","r","a","n","g","e">>
          [] op = "ring_map" -> <<"/","r","i","n","g","/","m","a","p">>

\* C24: every packet a grid or ring command hands to the outbound queue is
\* addressed to the session's prefix followed by the command's path; the
\* packets of set_rotation and set_prefix are addressed to /sys/rotation
\* and /sys/prefix, without the prefix.
C24_PrefixedUnlessSys ==
    /\ (lastCall.op \in GridCommands \cup RingCommands) =>
           \A j \in 1..Len(lastCall.frames) :
               lastCall.frames[j].addr
                   = SessionPrefix \o CommandPath(lastCall.op, lastCall.variant)
    /\ lastCall.op = "set_rotation" =>
           /\ Len(lastCall.frames) = 1
           /\ lastCall.frames[1].addr = <<"/","s","y","s","/","r","o","t","a","t","i","o","n">>
    /\ lastCall.op = "set_prefix" =>
           /\ Len(lastCall.frames) = 1
           /\ lastCall.frames[1].addr = <<"/","s","y","s","/","p","r","e","f","i","x">>

\* C24 witness: after set_prefix changed the prefix to /mono, set was called
\* on a Grid and its frame, addressed /mono/grid/led/set, is in the queue.
C24_Witness ==
    /\ pc = "session"
    /\ DeviceType = "Grid"
    /\ SessionPrefix = Mono
    /\ lastCall.op = "set"
    /\ lastCall.variant = "bool"
    /\ Len(outQ) = 2
    /\ outQ[1].bytes.addr = <<"/","s","y","s","/","p","r","e","f","i","x">>
    /\ outQ[2].bytes.addr = Mono \o <<"/","g","r","i","d","/","l","e","d","/","s","e","t">>

\* A call of tilt_all that handed its packet to the outbound queue.
TiltAllCalled == nCmd' # nCmd /\ lastCall'.op = "tilt_all"

Bit(m, k) == (m \div (2 ^ k)) % 2 = 1

\* The 8 masks a map packet carries behind its two offsets.
MasksOf(packet) == [r \in 1..8 |-> packet.args[r + 2].i]

\* Unpacking 8 row masks: the led of column k, row i is bit k of mask i.
Unpack(masks) ==
    [j \in 1..64 |-> Bit(masks[((j - 1) \div 8) + 1], (j - 1) % 8)]

\* C26: the 8 row masks that map and set_all pack from an array of 64
\* booleans unpack to the array itself: bit k of mask i is set exactly when
\* the led of column k, row i is lit, and each mask is a byte.
C26_PackUnpack ==
    ((lastCall.op = "map" /\ lastCall.variant = "boolx64")
        \/ lastCall.op = "set_all")
    => /\ Len(lastCall.frames) = 1
       /\ Len(lastCall.frames[1].args) = 10
       /\ \A r \in 1..8 : MasksOf(lastCall.frames[1])[r] \in 0..255
       /\ Unpack(MasksOf(lastCall.frames[1])) = leds
       /\ \A i \in 0..7 : \A k \in 0..7 :
              Bit(MasksOf(lastCall.frames[1])[i + 1], k) = leds[i * 8 + k + 1]

\* C26 witness: map packed an array whose only lit led is that of column 7,
\* row 0, into the first mask 128 and seven masks 0.
C26_Witness ==
    /\ lastCall.op = "map"
    /\ lastCall.variant = "boolx64"
    /\ \A j \in 1..64 : leds[j] <=> j = 8
    /\ MasksOf(lastCall.frames[1]) = <<128, 0, 0, 0, 0, 0, 0, 0>>
    /\ outQ # <<>>

GridWidth == Unwrap(monome).size[1]
GridHeight == Unwrap(monome).size[2]

\* The quadrants of the grid, in row-major order: quadrant q (from 0) has
\* its origin at column QuadX(q), row QuadY(q).
QuadCount == (GridWidth \div 8) * (GridHeight \div 8)
QuadX(q) == 8 * (q % (GridWidth \div 8))
QuadY(q) == 8 * (q \div (GridWidth \div 8))

\* The value at column x, row y of a row-major buffer of the whole grid.
At(buf, x, y) == buf[y * GridWidth + x + 1]

\* C27: on a Grid of W x H leds, set_all and set_all_intensity each send
\* (W/8) x (H/8) map packets, the q-th of them for the q-th quadrant in
\* row-major order, its offsets the origin of that quadrant and no other's,
\* carrying that quadrant's 64 values: 8 row masks for set_all, 64 row-major
\* intensities under level/ for set_all_intensity.
C27_OneMapPerQuadrant ==
    (lastCall.op \in {"set_all", "set_all_intensity"} /\ DeviceType = "Grid")
    => /\ Len(lastCall.frames) = QuadCount
       /\ \A q \in 0..(QuadCount - 1) :
            LET f == lastCall.frames[q + 1]
            IN  /\ f.args[1] = OscInt(QuadX(q))
                /\ f.args[2] = OscInt(QuadY(q))
                /\ \A p \in 0..(QuadCount - 1) :
                       (p # q) =>
                           <<lastCall.frames[p + 1].args[1], lastCall.frames[p + 1].args[2]>>
                               # <<f.args[1], f.args[2]>>
                /\ IF lastCall.op = "set_all"
                   THEN /\ f.addr = SessionPrefix \o <<"/","g","r","i","d","/","l","e","d","/","m","a","p">>
                        /\ Len(f.args) = 10
                        /\ \A i \in 0..7 : \A k \in 0..7 :
                               Bit(f.args[i + 3].i, k)
                                   = At(leds, QuadX(q) + k, QuadY(q) + i)
                   ELSE /\ f.addr = SessionPrefix
                                \o <<"/","g","r","i","d","/","l","e","d","/","l","e","v","e","l","/","m","a","p">>
                        /\ Len(f.args) = 66
                        /\ \A i \in 0..7 : \A k \in 0..7 :
                               f.args[i * 8 + k + 3]
                                   = OscInt(At(LevelsOf(leds), QuadX(q) + k, QuadY(q) + i))

\* C27 witness: set_all_intensity on a 16 x 8 grid sent two map packets,
\* for the quadrants at (0, 0) and (8, 0).
C27_Witness ==
    /\ pc = "session"
    /\ DeviceType = "Grid"
    /\ Unwrap(monome).size = <<16, 8>>
    /\ lastCall.op = "set_all_intensity"
    /\ Len(lastCall.frames) = 2
    /\ lastCall.frames[2].args[1] = OscInt(8)
    /\ lastCall.frames[2].args[2] = OscInt(0)
    /\ Len(outQ) = 2

\* C28: on a Grid, set(x, y, i) with an intensity i of [0, 16) sends one
\* packet to <prefix>/grid/led/level/set with the arguments (x, y, i), i as
\* it was given; set(x, y, b) with a boolean sends to <prefix>/grid/led/set,
\* without level/, with the third argument 1 for true and 0 for false.
C28_SetCarriesLevelOrBit ==
    (lastCall.op = "set" /\ DeviceType = "Grid")
    => /\ Len(lastCall.frames) = 1
       /\ lastCall.variant \in {"i32", "bool"}
       /\ lastCall.variant = "i32" =>
            /\ lastCall.ints[3] \in 0..15
            /\ lastCall.frames[1].addr = SessionPrefix
                   \o <<"/","g","r","i","d","/","l","e","d","/","l","e","v","e","l","/","s","e","t">>
            /\ lastCall.frames[1].args
                   = <<OscInt(lastCall.ints[1]), OscInt(lastCall.ints[2]),
                       OscInt(lastCall.ints[3])>>
       /\ lastCall.variant = "bool" =>
            /\ lastCall.frames[1].addr = SessionPrefix
                   \o <<"/","g","r","i","d","/","l","e","d","/","s","e","t">>
            /\ lastCall.frames[1].args
                   = <<OscInt(lastCall.ints[1]), OscInt(lastCall.ints[2]),
                       OscInt(IF lastCall.on THEN 1 ELSE 0)>>

\* C28 witness: after set(0, 0, true), set(7, 3, 15) was called and the
\* queue holds /plop/grid/led/set (0, 0, 1) and /plop/grid/led/level/set
\* (7, 3, 15).
C28_Witness ==
    /\ pc = "session"
    /\ SessionPrefix = Plop
    /\ lastCall.op = "set"
    /\ lastCall.variant = "i32"
    /\ Len(outQ) = 2
    /\ outQ[1].bytes.addr = Plop \o <<"/","g","r","i","d","/","l","e","d","/","s","e","t">>
    /\ outQ[1].bytes.args = <<OscInt(0), OscInt(0), OscInt(1)>>
    /\ outQ[2].bytes.addr
           = Plop \o <<"/","g","r","i","d","/","l","e","d","/","l","e","v","e","l","/","s","e","t">>
    /\ outQ[2].bytes.args = <<OscInt(7), OscInt(3), OscInt(15)>>

\* C29: once the receive loop of setup has received a bundle, setup has
\* aborted: it is not waiting for further fields, and it neither has
\* returned a descriptor nor will a session be built from one.
C29_HandshakeBundleIsFatal ==
    hsBundle => pc \notin {"handshake", "setup_returned", "session"}

\* C30: a turn of the receive loop that leaves one of the six fields unset
\* does not end setup: the loop waits for the next datagram (or the thread
\* panics) and nothing is sent again; setup returns no descriptor and no
\* error while a field is missing.
C30_WaitsWhileIncomplete ==
    [][(pc = "handshake" /\ ~complete(info'))
          => /\ pc' \in {"handshake", "panicked"}
             /\ wire' = wire
             /\ monome' = None]_vars

\* C30 witness: the device has repeated its port and never sent a rotation;
\* setup has received six datagrams or more and is still waiting.
C30_Witness ==
    /\ pc = "handshake"
    /\ hsArrivals.port = 2
    /\ hsArrivals.rotation = 0
    /\ \A f \in Fields \ {"port", "rotation"} : hsArrivals[f] = 1
    /\ ~complete(info)
    /\ Len(wire) = 4

-----------------------------------------------------------------------------
(* Properties of the device-change watcher *)

IsAdd(d) == d.ok /\ d.kind = "Message" /\ d.addr = SerialoscAdd
IsRemove(d) == d.ok /\ d.kind = "Message" /\ d.addr = SerialoscRemove

\* The entries of the log from the one behind entry j up to the next
\* receive, or to the end of the log.
RECURSIVE UntilRecv(_, _)
UntilRecv(log, j) ==
    IF j >= Len(log) \/ log[j + 1].k = "recv" THEN <<>>
    ELSE <<log[j + 1]>> \o UntilRecv(log, j + 1)

\* After entry j the watcher has come to its next receive.
AtNextRecv(j) ==
    \/ \E k \in (j + 1)..Len(wLog) : wLog[k].k = "recv"
    \/ wpc = "recv"

\* C31: the watcher sends a /serialosc/notify registration before its first
\* receive; after every /serialosc/add and /serialosc/remove message it
\* calls the callback with Added or Removed, and it has sent exactly one
\* new registration when it comes to its next receive.
C31_RenotifyAfterEveryChange ==
    /\ wLog # <<>> => wLog[1].k = "notify"
    /\ \A j \in 1..Len(wLog) :
        (wLog[j].k = "recv" /\ (IsAdd(wLog[j].dgram) \/ IsRemove(wLog[j].dgram)))
        => /\ WCount(UntilRecv(wLog, j), "callback") = 1
           /\ \A k \in 1..Len(UntilRecv(wLog, j)) :
                  UntilRecv(wLog, j)[k].k = "callback" =>
                      UntilRecv(wLog, j)[k].ev.type
                          = (IF IsAdd(wLog[j].dgram) THEN "Added" ELSE "Removed")
           /\ AtNextRecv(j) => WCount(UntilRecv(wLog, j), "notify") = 1

\* C32: a message that is neither /serialosc/add nor /serialosc/remove
\* calls no callback and causes no registration: from its receipt to the
\* next receive the watcher sends nothing and calls nothing, and its flag
\* stays clear.
C32_OtherMessagesIgnored ==
    \A j \in 1..Len(wLog) :
        (wLog[j].k = "recv" /\ wLog[j].dgram.ok /\ wLog[j].dgram.kind = "Message"
            /\ ~IsAdd(wLog[j].dgram) /\ ~IsRemove(wLog[j].dgram))
        => /\ UntilRecv(wLog, j) = <<>>
           /\ (j = Len(wLog) => ~need_notify_msg)

-----------------------------------------------------------------------------
(* Properties of new_bound_socket *)

\* C33: new_bound_socket tries the ports one at a time, in increasing order
\* from 10000, and binds the lowest free one; it never tries a port above
\* 65535; it ends, and when every port from 10000 to 65535 is taken (and
\* only then) it ends in a panic.
C33_LowestFreePortOrAbort ==
    /\ [](/\ bTried <= PortCeiling
          /\ bTried # 0 => bTried >= START_PORT
          /\ bpc = "bound" =>
                /\ localPort = bTried
                /\ ~Taken(localPort, busyPorts)
                /\ \A p \in START_PORT..(localPort - 1) : Taken(p, busyPorts)
          /\ bpc = "panicked" =>
                /\ \A p \in START_PORT..PortCeiling : Taken(p, busyPorts)
                /\ bTried = PortCeiling)
    /\ [][bTried' # bTried =>
              bTried' = IF bTried = 0 THEN START_PORT ELSE bTried + 1]_vars
    /\ <>(bpc \in {"bound", "panicked"})

\* C33 witness: every port was taken, 65535 was the last one tried, and
\* the call has panicked.
C33_Witness ==
    /\ bpc = "panicked"
    /\ bTried = PortCeiling
    /\ bport = PortCeiling + 1
    /\ localPort = 0

-----------------------------------------------------------------------------
(* Properties of the session's descriptor *)

\* The fields of a session that no method assigns.
FixedFields(m) == <<m.name, m.device_type, m.port, m.host, m.id, m.size>>

\* C34: while the session lives, its name, kind, device port, host, id and
\* size never change; its rotation changes in a set_rotation call only and
\* its prefix in a set_prefix call only; every other command, and every
\* poll, leaves the whole descriptor as it was.
C34_DescriptorFixedButRotationPrefix ==
    [][ (monome # None /\ monome' # None) =>
          LET m == Unwrap(monome)
              n == Unwrap(monome')
          IN  /\ FixedFields(n) = FixedFields(m)
              /\ (n.rotation # m.rotation =>
                     /\ CallSetRotation
                     /\ lastCall'.op = "set_rotation"
                     /\ lastCall'.ints = <<n.rotation>>
                     /\ n.prefix = m.prefix)
              /\ (n.prefix # m.prefix =>
                     /\ CallSetPrefix
                     /\ lastCall'.op = "set_prefix"
                     /\ n.rotation = m.rotation)
              /\ (n # m => CallSetRotation \/ CallSetPrefix) ]_vars

\* Both setters were called and a frame was polled: the prefix and the
\* rotation are the new ones, and the size is the one of the handshake.
C34_Witness ==
    /\ monome # None
    /\ Unwrap(monome).prefix = Mono
    /\ Unwrap(monome).rotation = 90
    /\ Unwrap(monome).size = <<8, 8>>
    /\ Unwrap(monome).name = IdA
    /\ delivered # <<>>
    /\ lastEvent # NotPolled

-----------------------------------------------------------------------------
(* Properties of MonomeInfo::fill during the handshake *)

\* The six addresses of the handshake, with the types of their arguments.
SysFields ==
    { [addr |-> SysPort, types |-> <<"Int">>],
      [addr |-> SysHost, types |-> <<"String">>],
      [addr |-> SysId, types |-> <<"String">>],
      [addr |-> SysPrefix, types |-> <<"String">>],
      [addr |-> SysRotation, types |-> <<"Int">>],
      [addr |-> SysSize, types |-> <<"Int", "Int">>] }

\* The message is at none of the six addresses.
NotAField(packet) == \A sf \in SysFields : packet.addr # sf.addr

\* The message is at one of the six addresses and one of the arguments it
\* carries there has another type than the field's.
WrongTyped(packet) ==
    \E sf \in SysFields :
        /\ packet.addr = sf.addr
        /\ \E k \in 1..Len(sf.types) :
               k <= Len(packet.args) /\ packet.args[k].t # sf.types[k]

\* C35: a turn of the handshake loop that received a message at none of the
\* six addresses, or one with an argument of the wrong type, leaves the six
\* fields of the info as they were and stays in the loop; and no turn
\* unsets a field that was set.
C35_UnrecognizedLeavesInfo ==
    [][ /\ \A dgram \in HandshakeDatagrams(device) :
              LET d == decode(dgram)
              IN  ( /\ pc = "handshake"
                    /\ SetupTurn(dgram)
                    /\ ~d.err
                    /\ d.packet.kind = "Message"
                    /\ NotAField(d.packet) \/ WrongTyped(d.packet) )
                  => (info' = info /\ pc' = "handshake")
        /\ \A f \in Fields : info[f] # None => info'[f] # None ]_vars

-----------------------------------------------------------------------------
(* Properties of set_prefix and set_rotation *)

\* The addresses of the packets of the latest call all begin with `prefix`.
CallUnder(call, prefix) ==
    \A j \in 1..Len(call.frames) : StartsWith(call.frames[j].addr, prefix)

\* C36: when set_prefix(p) returns the session's prefix is p, and when
\* set_rotation(r) returns its rotation is r, whether the frame was accepted
\* or refused because the channel was full or closed; the prefix stays p
\* until the next set_prefix, and every set called meanwhile addresses its
\* frame under it.
C36_SettersAssignWhateverTheSend ==
    [][ /\ CallSetPrefix =>
               /\ lastCmd' \in {"sent", "full", "disconnected"}
               /\ Unwrap(monome').prefix = lastCall'.frames[1].args[1].s
        /\ CallSetRotation =>
               /\ lastCmd' \in {"sent", "full", "disconnected"}
               /\ Unwrap(monome').rotation = lastCall'.frames[1].args[1].i
        /\ (monome # None /\ monome' # None /\ ~CallSetPrefix) =>
               Unwrap(monome').prefix = Unwrap(monome).prefix
        /\ CallSet => CallUnder(lastCall', Unwrap(monome).prefix) ]_vars

\* set_prefix(/mono) was refused by the full channel, as the first command;
\* the second, a set, was accepted after the reactor had taken a frame, and
\* its frame, the last in the channel, is addressed under /mono.
C36_Witness ==
    /\ monome # None
    /\ Unwrap(monome).prefix = Mono
    /\ nCmd = 2
    /\ accepted = <<2>>
    /\ refusals = {"full"}
    /\ lastCall.op = "set"
    /\ outQ # <<>>
    /\ outQ[Len(outQ)].seq = 2
    /\ outQ[Len(outQ)].bytes = encode(lastCall.frames[1])
    /\ CallUnder(lastCall, Mono)
    /\ \A j \in 1..Len(outQ) : outQ[j].bytes # encode(set_prefix(Mono)[1])

-----------------------------------------------------------------------------
(* Properties of poll after set_prefix *)

\* The addresses of the four events under the prefix p.
EventAddrs(p) ==
    {p \o GridKeySuffix, p \o TiltSuffix, p \o EncDeltaSuffix, p \o EncKeySuffix}

\* The datagram is an event frame under p: a message at one of the four
\* addresses that a session with the prefix p reads as an event.
IsEventFrame(p, buf) ==
    /\ ~decode(buf).err
    /\ decode(buf).packet.kind = "Message"
    /\ decode(buf).packet.addr \in EventAddrs(p)
    /\ ~parse(p, buf).panic
    /\ parse(p, buf).val # NoEvent

\* C37: once set_prefix has replaced the prefix p the session was opened
\* with by another, a poll that pops an event frame sent under p returns
\* None, and the frame is gone from the queue.
C37_OldPrefixFramesDropped ==
    [][ ( /\ PollFrame
          /\ monome # None
          /\ Unwrap(monome).prefix # prefixArg
          /\ IsEventFrame(prefixArg, Unwrap(lastBuf')) )
        => ( /\ pc' = "session"
             /\ lastEvent' = NoEvent
             /\ inQ' = Tail(inQ) ) ]_vars

-----------------------------------------------------------------------------
(* Properties of enumeration: announcements that carry no descriptor *)

\* The arguments are a string, a string and an integer, and no more.
StringStringInt(args) ==
    Len(args) = 3 /\ <<args[1].t, args[2].t, args[3].t>> = <<"String", "String", "Int">>

\* C38: a turn of the enumeration loop that received /serialosc/device
\* without an argument list ends the enumeration with the descriptors it
\* had; a turn that received /serialosc/device with arguments that are not
\* (string, string, integer) adds no descriptor and stays in the loop.
C38_EmptyEndsMismatchContinues ==
    [][ EnumRecv =>
          LET d == decode(Head(eSock).dgram)
          IN  (~d.err /\ d.packet.kind = "Message" /\ d.packet.addr = SerialoscDevice) =>
                  /\ ~d.packet.hasArgs =>
                         (epc' = "returned" /\ devices' = devices)
                  /\ (d.packet.hasArgs /\ ~StringStringInt(d.packet.args)) =>
                         (epc' = "listening" /\ devices' = devices) ]_vars

\* An announcement whose port is a string was received, then the grid's,
\* then one without arguments: enumeration has returned the grid alone.
C38_Witness ==
    /\ epc = "returned"
    /\ Len(eRecv) = 3
    /\ eRecv[1].dgram = encode(Message(SerialoscDevice,
                               <<OscString(IdA), OscString(NameGrid), OscString(Plop)>>))
    /\ eRecv[2].dgram = encode(Message(SerialoscDevice,
                               <<OscString(IdA), OscString(NameGrid), OscInt(1234)>>))
    /\ eRecv[3].dgram = encode(MessageNoArgs(SerialoscDevice))
    /\ devices = <<MonomeDevice_new(IdA, NameGrid, 1234)>>

-----------------------------------------------------------------------------
(* Properties of set_all on an 8x8 grid *)

\* <prefix>/grid/led/map
MapAddr(prefix) == prefix \o GridLed \o <<"m","a","p">>

\* Mask i of a buffer of 64 leds: bit k is the led of column k, row i.
RowMask(buf, i) ==
    LET RECURSIVE sum(_)
        sum(k) == IF k > 7 THEN 0
                  ELSE (IF buf[i * 8 + k + 1] THEN 2 ^ k ELSE 0) + sum(k + 1)
    IN  sum(0)

\* C39: on an 8x8 grid set_all(leds) hands over the packet that
\* map(0, 0, leds) hands over for the same 64 booleans: one message at
\* <prefix>/grid/led/map with the arguments 0, 0 and the 8 row masks.
C39_SetAllIsMapAtOrigin ==
    (lastCall.op = "set_all" /\ Unwrap(monome).size = <<8, 8>>) =>
        /\ lastCall.frames = map(Unwrap(monome), 0, 0, ArgBoolx64(leds))
        /\ lastCall.frames =
               << Message(MapAddr(Unwrap(monome).prefix),
                          <<OscInt(0), OscInt(0)>>
                              \o [r \in 1..8 |-> OscInt(RowMask(leds, r - 1))]) >>
        /\ outQ # <<>>
        /\ outQ[Len(outQ)].bytes = encode(map(Unwrap(monome), 0, 0, ArgBoolx64(leds))[1])

\* Only the led of column 1, row 1 is lit, and set_all was called after
\* another call: both frames are in the channel, with the same bytes, the
\* second mask being 2.
C39_Witness ==
    /\ lastCall.op = "set_all"
    /\ \A j \in 1..64 : leds[j] <=> j = 10
    /\ lastCall.frames =
           << Message(MapAddr(Plop),
                      OscInts(<<0, 0, 0, 2, 0, 0, 0, 0, 0, 0>>)) >>
    /\ accepted = <<1, 2>>
    /\ Len(outQ) = 2
    /\ outQ[1].bytes = outQ[2].bytes

=============================================================================
